---- MODULE Spec2Model ----
(***************************************************************************)
(* A model of crane's catalog: the in-memory index papers.List, the        *)
(* filesystem below papers.Path, and the operations that change both       *)
(* (PopulatePapers, the category branch of AddHandler, NewPaperFromDOI,    *)
(* NewPaperFromDirectLink, DeletePaper, DeleteCategory, MovePaper,         *)
(* RenameCategory).                                                        *)
(*                                                                         *)
(* Strings are sequences of one-character strings, so that the path        *)
(* functions of Go's path/filepath and strings packages are computed the   *)
(* way the library computes them ("a/b" is <<"a", "/", "b">>).             *)
(***************************************************************************)
EXTENDS Integers, Sequences, FiniteSets, TLC

(***************************************************************************)
(* strings                                                                 *)
(***************************************************************************)
Slash == <<"/">>
Dot == <<".">>
DotDot == <<".", ".">>
PdfExt == <<".", "p", "d", "f">>
MetaExt == <<".", "m", "e", "t", "a", ".", "x", "m", "l">>

\* strings.HasPrefix
HasPrefix(s, p) == Len(p) <= Len(s) /\ SubSeq(s, 1, Len(p)) = p

\* strings.HasSuffix
HasSuffix(s, p) == Len(p) <= Len(s) /\ SubSeq(s, Len(s) - Len(p) + 1, Len(s)) = p

\* strings.TrimPrefix
TrimPrefix(s, p) == IF HasPrefix(s, p) THEN SubSeq(s, Len(p) + 1, Len(s)) ELSE s

\* strings.TrimSuffix
TrimSuffix(s, p) == IF HasSuffix(s, p) THEN SubSeq(s, 1, Len(s) - Len(p)) ELSE s

\* strings.LastIndex(s, c) for a one-character c, 1-based; 0 when absent: the
\* search goes from position i down
RECURSIVE LastIndexFrom(_, _, _)
LastIndexFrom(s, c, i) ==
  IF i = 0 THEN 0 ELSE IF s[i] = c THEN i ELSE LastIndexFrom(s, c, i - 1)

LastIndex(s, c) == LastIndexFrom(s, c, Len(s))

\* strings.Replace(s, old, "", -1): every non-overlapping occurrence of old,
\* left to right, is dropped
RECURSIVE Remove(_, _)
Remove(s, old) ==
  IF s = <<>> THEN <<>>
  ELSE IF HasPrefix(s, old) THEN Remove(SubSeq(s, Len(old) + 1, Len(s)), old)
  ELSE <<s[1]>> \o Remove(Tail(s), old)

\* strings.Trim(s, cutset): leading and trailing characters of cutset dropped
RECURSIVE TrimLeft(_, _)
TrimLeft(s, cutset) ==
  IF s # <<>> /\ s[1] \in cutset THEN TrimLeft(Tail(s), cutset) ELSE s

RECURSIVE TrimRight(_, _)
TrimRight(s, cutset) ==
  IF s # <<>> /\ s[Len(s)] \in cutset
    THEN TrimRight(SubSeq(s, 1, Len(s) - 1), cutset) ELSE s

Trim(s, cutset) == TrimRight(TrimLeft(s, cutset), cutset)

\* strconv.Itoa for n >= 0
DigitChar(d) == CASE d = 0 -> "0" [] d = 1 -> "1" [] d = 2 -> "2" [] d = 3 -> "3"
                  [] d = 4 -> "4" [] d = 5 -> "5" [] d = 6 -> "6" [] d = 7 -> "7"
                  [] d = 8 -> "8" [] d = 9 -> "9"

RECURSIVE Itoa(_)
Itoa(n) == IF n < 10 THEN <<DigitChar(n)>> ELSE Itoa(n \div 10) \o <<DigitChar(n % 10)>>

(***************************************************************************)
(* path/filepath (Unix)                                                    *)
(***************************************************************************)
\* the elements of a path between its separators (empty elements included)
RECURSIVE SplitPath(_)
SplitPath(s) ==
  LET I == {i \in 1..Len(s) : s[i] = "/"}
  IN  IF I = {} THEN <<s>>
      ELSE LET i == CHOOSE k \in I : \A j \in I : k <= j
           IN  <<SubSeq(s, 1, i - 1)>> \o SplitPath(SubSeq(s, i + 1, Len(s)))

RECURSIVE JoinElems(_)
JoinElems(es) ==
  IF es = <<>> THEN <<>>
  ELSE IF Len(es) = 1 THEN es[1]
  ELSE es[1] \o Slash \o JoinElems(Tail(es))

\* the element stack of filepath.Clean: "" and "." are dropped, ".." removes the
\* element before it, is dropped at the root and is kept at the front of a
\* relative path
RECURSIVE CleanElems(_, _, _)
CleanElems(es, out, rooted) ==
  IF es = <<>> THEN out
  ELSE LET e == es[1]
           rest == Tail(es)
       IN  IF e = <<>> \/ e = Dot THEN CleanElems(rest, out, rooted)
           ELSE IF e = DotDot
             THEN IF out # <<>> /\ out[Len(out)] # DotDot
                    THEN CleanElems(rest, SubSeq(out, 1, Len(out) - 1), rooted)
                  ELSE IF rooted THEN CleanElems(rest, out, rooted)
                  ELSE CleanElems(rest, Append(out, e), rooted)
           ELSE CleanElems(rest, Append(out, e), rooted)

\* a path Clean returns as it is: no element is empty or begins with a dot, and
\* there is no trailing separator (such a path with one trailing separator loses
\* only the separator)
IsClean(s) ==
  /\ s # <<>>
  /\ s[1] # "."
  /\ s[Len(s)] # "/" \/ s = Slash
  /\ \A i \in 1..(Len(s) - 1) : s[i] = "/" => s[i + 1] \notin {"/", "."}

\* filepath.Clean
Clean(s) ==
  IF s = <<>> THEN Dot
  ELSE IF IsClean(s) THEN s
  ELSE IF Len(s) > 1 /\ s[Len(s)] = "/" /\ IsClean(SubSeq(s, 1, Len(s) - 1))
    THEN SubSeq(s, 1, Len(s) - 1)
  ELSE LET rooted == s[1] = "/"
           body == JoinElems(CleanElems(SplitPath(s), <<>>, rooted))
       IN  IF rooted THEN Slash \o body
           ELSE IF body = <<>> THEN Dot ELSE body

\* filepath.Join of two elements: empty elements are ignored, the result is Cleaned
Join(a, b) ==
  IF a = <<>> /\ b = <<>> THEN <<>>
  ELSE IF a = <<>> THEN Clean(b)
  ELSE IF b = <<>> THEN Clean(a)
  ELSE Clean(a \o Slash \o b)

\* filepath.Dir
Dir(s) == Clean(SubSeq(s, 1, LastIndex(s, "/")))

\* filepath.Base
Base(s) ==
  IF s = <<>> THEN Dot
  ELSE LET t == TrimRight(s, {"/"})
       IN  IF t = <<>> THEN Slash
           ELSE SubSeq(t, LastIndex(t, "/") + 1, Len(t))

\* filepath.Ext: the suffix beginning at the final dot of the final element
Ext(s) ==
  LET last == SubSeq(s, LastIndex(s, "/") + 1, Len(s))
      i == LastIndex(last, ".")
  IN  IF i = 0 THEN <<>> ELSE SubSeq(last, i, Len(last))

(***************************************************************************)
(* finite maps                                                             *)
(***************************************************************************)
EmptyMap == [x \in {} |-> 0]

MapPut(f, k, v) == [x \in DOMAIN f \cup {k} |-> IF x = k THEN v ELSE f[x]]

MapDel(f, k) == [x \in DOMAIN f \ {k} |-> f[x]]

(***************************************************************************)
(* the filesystem: st.dirs is the set of directories, st.files maps each   *)
(* regular file to its content; both hold absolute, clean paths.           *)
(* Every operation returns [err, st]: err = "" is Go's nil error.          *)
(* An operation called with io = TRUE fails with an I/O error (EIO, EACCES)*)
(* and changes nothing.                                                    *)
(***************************************************************************)
\* papers.Path (the -path flag made absolute) and os.TempDir()
Root == <<"/", "r">>
TmpDir == <<"/", "t">>

IsDir(st, p) == p \in st.dirs

IsFile(st, p) == p \in DOMAIN st.files

\* os.Stat(p) returns a nil error
Stat(st, p) == IsDir(st, p) \/ IsFile(st, p)

\* p is d or lies below d
Under(p, d) == p = d \/ HasPrefix(p, d \o Slash)

Ok(st) == [err |-> "", st |-> st]

Fail(e, st) == [err |-> e, st |-> st]

\* os.Remove: a file or an empty directory
OsRemove(st, p, io) ==
  IF io THEN Fail("io", st)
  ELSE IF IsFile(st, p) THEN Ok([st EXCEPT !.files = MapDel(@, p)])
  ELSE IF IsDir(st, p) /\ ~\E q \in st.dirs \cup DOMAIN st.files : q # p /\ Under(q, p)
    THEN Ok([st EXCEPT !.dirs = @ \ {p}])
  ELSE Fail("io", st)

\* os.RemoveAll: the path and everything below it; nil when the path is absent
OsRemoveAll(st, p, io) ==
  IF io THEN Fail("io", st)
  ELSE Ok([st EXCEPT !.dirs = {q \in @ : ~Under(q, p)},
                     !.files = [q \in {x \in DOMAIN @ : ~Under(x, p)} |-> @[q]]])

\* rename(2): a file replaces an existing file, a directory replaces an existing
\* empty directory; the new path's parent must be a directory and the new path must
\* not lie below the old one
OsRename(st, old, new, io) ==
  LET move(q) == new \o SubSeq(q, Len(old) + 1, Len(q))
      below == {q \in st.dirs \cup DOMAIN st.files : q # new /\ Under(q, new)}
  IN  IF io \/ ~Stat(st, old) \/ ~IsDir(st, Dir(new)) THEN Fail("io", st)
      ELSE IF old = new THEN Ok(st)
      ELSE IF IsFile(st, old)
        THEN IF IsDir(st, new) THEN Fail("io", st)
             ELSE Ok([st EXCEPT !.files = MapPut(MapDel(@, old), new, st.files[old])])
      ELSE IF IsFile(st, new) \/ Under(new, old) \/ below # {} THEN Fail("io", st)
      ELSE Ok([st EXCEPT
                 !.dirs = {q \in @ : ~Under(q, old)} \cup {move(q) : q \in {x \in @ : Under(x, old)}},
                 !.files = [q \in {x \in DOMAIN @ : ~Under(x, old)}
                                   \cup {move(x) : x \in {y \in DOMAIN @ : Under(y, old)}} |->
                              IF q \in DOMAIN @ /\ ~Under(q, old) THEN @[q]
                              ELSE @[old \o SubSeq(q, Len(new) + 1, Len(q))]]])

\* the directories from the root down to p
RECURSIVE Ancestors(_)
Ancestors(p) == IF p = Slash \/ p = Dot THEN {} ELSE {p} \cup Ancestors(Dir(p))

\* os.MkdirAll: p and every missing parent; fails when one of them is a file
OsMkdirAll(st, p, io) ==
  IF io \/ \E q \in Ancestors(p) : IsFile(st, q) THEN Fail("io", st)
  ELSE Ok([st EXCEPT !.dirs = @ \cup Ancestors(p)])

\* os.Create followed by a complete write of data
OsCreate(st, p, data, io) ==
  IF io \/ ~IsDir(st, Dir(p)) \/ IsDir(st, p) THEN Fail("io", st)
  ELSE Ok([st EXCEPT !.files = MapPut(@, p, data)])

(***************************************************************************)
(* Meta, Paper and the XML sidecar                                         *)
(***************************************************************************)
Doi1 == <<"1", "0", ".", "1", "2", "3", "4", "/", "a">>
Doi2 == <<"1", "0", ".", "1", "2", "3", "4", "/", "b">>

\* the zero value of Meta
EmptyMeta == [Contributors |-> <<>>, PubYear |-> <<>>, DOI |-> <<>>]

\* the XML documents of the model (file contents) and the Meta each decodes to
XmlDocs == {"xml1", "xml2", "xml3"}

\* xml.NewDecoder(r).Decode(&paper.Meta), for a well-formed document
XmlDecode(data) ==
  CASE data = "xml1" ->
         [Contributors |-> <<[LastName |-> <<"X">>, Sequence |-> "first"]>>,
          PubYear |-> <<"1">>, DOI |-> Doi1]
    [] data = "xml2" ->
         [Contributors |-> <<[LastName |-> <<"Z">>, Sequence |-> "additional"],
                             [LastName |-> <<"X">>, Sequence |-> "first"]>>,
          PubYear |-> <<"1">>, DOI |-> Doi2]
    [] data = "xml3" ->
         [Contributors |-> <<[LastName |-> <<"Y">>, Sequence |-> "additional"]>>,
          PubYear |-> <<>>, DOI |-> Doi2]
    [] data = "xml4" ->
         [Contributors |-> <<[LastName |-> <<"Z">>, Sequence |-> "first"]>>,
          PubYear |-> <<"2">>, DOI |-> Doi1]
    [] data = "xml5" ->
         [Contributors |-> <<[LastName |-> <<"Y">>, Sequence |-> "additional"],
                             [LastName |-> <<>>, Sequence |-> "first"]>>,
          PubYear |-> <<"1">>, DOI |-> Doi1]
    [] data = "xml6" ->
         [Contributors |-> <<[LastName |-> <<"X">>, Sequence |-> "first"]>>,
          PubYear |-> <<>>, DOI |-> Doi2]

\* a well-formed document of more than MAX_SIZE bytes
XmlLarge == "xml4"

\* well-formed records that lack a field: the first author's last name, the year
XmlSparse == {"xml5", "xml6"}

\* Decode returns a nil error
XmlWellFormed(data) == data \in XmlDocs \cup XmlSparse \cup {XmlLarge}

\* const MAX_SIZE
MAX_SIZE == 50000000

\* the number of bytes of a response body
BodyLen(body) == IF body \in {"big", XmlLarge} THEN MAX_SIZE + 1 ELSE 4

\* a Paper with zero-valued fields (var paper Paper)
ZeroPaper == [Meta |-> EmptyMeta, MetaPath |-> <<>>, PaperName |-> <<>>, PaperPath |-> <<>>]

(***************************************************************************)
(* papers.List maps a category key to a map from document keys to *Paper.  *)
(* st.List holds the pointers and st.heap the Paper each points to: two    *)
(* keys holding the same pointer share one Paper, as in Go.                *)
(***************************************************************************)
\* &paper: an address no live Paper has
NewPtr(heap) == CHOOSE n \in 1..(Cardinality(DOMAIN heap) + 1) : n \notin DOMAIN heap

\* the Papers no key points to are collected
Collect(st) ==
  LET live == UNION {{st.List[c][k] : k \in DOMAIN st.List[c]} : c \in DOMAIN st.List}
  IN  [st EXCEPT !.heap = [p \in live |-> @[p]]]

\* the index with every pointer followed: category -> key -> Paper
Deref(st) ==
  [c \in DOMAIN st.List |-> [k \in DOMAIN st.List[c] |-> st.heap[st.List[c][k]]]]

\* findPapersWalk: one step of the walk, on entry path
findPapersWalk(st, path) ==
  IF path = Root THEN Ok(st)
  ELSE
    LET category == IF IsDir(st, path) THEN TrimPrefix(path, Root \o Slash)
                    ELSE TrimPrefix(Dir(path), Root \o Slash)
        st1 == IF category \in DOMAIN st.List THEN st
               ELSE [st EXCEPT !.List = MapPut(@, category, EmptyMap)]
        PaperName == TrimSuffix(Base(path), Ext(path))
        PaperPath == Join(Root, Join(category, PaperName \o PdfExt))
        metaPath == Join(Root, Join(category, PaperName \o MetaExt))
        hasMeta == Stat(st, metaPath)
        paper == [Meta |-> IF hasMeta THEN XmlDecode(st.files[metaPath]) ELSE EmptyMeta,
                  MetaPath |-> IF hasMeta THEN metaPath ELSE <<>>,
                  PaperName |-> PaperName,
                  PaperPath |-> PaperPath]
        relPath == Join(category, PaperName \o PdfExt)
        ptr == NewPtr(st1.heap)
    IN  IF Ext(path) # PdfExt THEN Ok(st1)
        ELSE IF hasMeta /\ ~(IsFile(st, metaPath) /\ XmlWellFormed(st.files[metaPath]))
          THEN Fail("xml", st1)
        ELSE Ok([st1 EXCEPT !.List[category] = MapPut(@, relPath, ptr),
                            !.heap = MapPut(@, ptr, paper)])

\* filepath.Walk over the entries todo, stopping at the first error
RECURSIVE Walk(_, _)
Walk(r, todo) ==
  IF todo = {} \/ r.err # "" THEN r
  ELSE LET path == CHOOSE q \in todo : \A o \in todo : Len(q) <= Len(o)
       IN  Walk(findPapersWalk(r.st, path), todo \ {path})

\* PopulatePapers on an empty papers.List (main)
PopulatePapers(st) ==
  Walk(Ok([st EXCEPT !.List = EmptyMap, !.heap = EmptyMap]),
       {q \in st.dirs \cup DOMAIN st.files : Under(q, Root)})

(***************************************************************************)
(* the catalog operations; each returns [err, st]                          *)
(***************************************************************************)
\* papers.List[c][k] exists (a lookup in a missing inner map finds nothing)
HasKey(st, c, k) == c \in DOMAIN st.List /\ k \in DOMAIN st.List[c]

\* getUniqueName: the loop, with the current name and ext
RECURSIVE UniqueNameLoop(_, _, _, _)
UniqueNameLoop(st, category, name, ext) ==
  LET key == Join(category, name \o PdfExt)
  IN  IF ~HasKey(st, category, key) THEN name
      ELSE UniqueNameLoop(st, category, name \o <<"-">> \o Itoa(ext), ext + 1)

\* getUniqueName with the loop left after one round: the name with "-2" appended is
\* returned without a second look at the index
getUniqueNameOnce(st, category, name) ==
  IF ~HasKey(st, category, Join(category, name \o PdfExt)) THEN name
  ELSE name \o <<"-">> \o Itoa(2)

getUniqueName(st, category, name) == UniqueNameLoop(st, category, name, 2)

\* getUniqueName that reserves the name it returns: the key is put in the index
getUniqueNameReserving(st, category, name) ==
  LET r == getUniqueName(st, category, name)
      ptr == NewPtr(st.heap)
  IN  [name |-> r,
       st |-> IF category \in DOMAIN st.List
                THEN [st EXCEPT !.List[category] = MapPut(@, Join(category, r \o PdfExt), ptr),
                                !.heap = MapPut(@, ptr, [PaperName |-> r])]
                ELSE st]

\* a call of getUniqueName with the catalog it leaves: papers.List is only read (a
\* lookup in a map, also in a missing inner map, inserts nothing)
getUniqueNameCall(st, category, name) ==
  [name |-> getUniqueName(st, category, name), st |-> st]

\* DeletePaper that drops the category with its last document
DeletePaperPruning(st, paper, io) ==
  LET category == Dir(paper)
      p == st.heap[st.List[category][paper]]
      r1 == OsRemove(st, p.PaperPath, io = 1)
      metaPath == p.MetaPath
      r2 == IF metaPath # <<>> /\ Stat(r1.st, metaPath)
              THEN OsRemove(r1.st, metaPath, io = 2) ELSE Ok(r1.st)
  IN  IF category \notin DOMAIN st.List THEN Fail("nocategory", st)
      ELSE IF paper \notin DOMAIN st.List[category] THEN Fail("nopaper", st)
      ELSE IF r1.err # "" THEN r1
      ELSE IF r2.err # "" THEN r2
      ELSE IF DOMAIN st.List[category] = {paper}
        THEN Ok([r2.st EXCEPT !.List = MapDel(@, category)])
      ELSE Ok([r2.st EXCEPT !.List[category] = MapDel(@, paper)])

\* DeletePaper; io names the filesystem call that fails: 1 the removal of the PDF,
\* 2 the removal of the sidecar, 0 none
DeletePaper(st, paper, io) ==
  LET category == Dir(paper)
      p == st.heap[st.List[category][paper]]
      r1 == OsRemove(st, p.PaperPath, io = 1)
      metaPath == p.MetaPath
      r2 == IF metaPath # <<>> /\ Stat(r1.st, metaPath)
              THEN OsRemove(r1.st, metaPath, io = 2) ELSE Ok(r1.st)
  IN  IF category \notin DOMAIN st.List THEN Fail("nocategory", st)
      ELSE IF paper \notin DOMAIN st.List[category] THEN Fail("nopaper", st)
      ELSE IF r1.err # "" THEN r1
      ELSE IF r2.err # "" THEN r2
      ELSE Ok([r2.st EXCEPT !.List[category] = MapDel(@, paper)])

\* DeleteCategory comparing the keys with the category's name alone, without the "/"
DeleteCategoryBarePrefix(st, category, io) ==
  LET r1 == OsRemoveAll(st, Join(Root, category), io = 1)
  IN  IF category \notin DOMAIN st.List THEN Fail("nocategory", st)
      ELSE IF r1.err # "" THEN r1
      ELSE Ok([r1.st EXCEPT !.List =
                 [key \in {k \in DOMAIN @ : ~HasPrefix(k, category)} |-> @[key]]])

\* DeleteCategory without the loop over the subcategories: only the key of the
\* category is deleted
DeleteCategoryKeyOnly(st, category, io) ==
  LET r1 == OsRemoveAll(st, Join(Root, category), io = 1)
  IN  IF category \notin DOMAIN st.List THEN Fail("nocategory", st)
      ELSE IF r1.err # "" THEN r1
      ELSE Ok([r1.st EXCEPT !.List = MapDel(@, category)])

\* DeleteCategory without the check that the category is a key of papers.List
DeleteCategoryUnchecked(st, category, io) ==
  LET r1 == OsRemoveAll(st, Join(Root, category), io = 1)
  IN  IF r1.err # "" THEN r1
      ELSE Ok([r1.st EXCEPT !.List =
                 [key \in {k \in DOMAIN @ : ~HasPrefix(k, category \o Slash) /\ k # category}
                    |-> @[key]]])

\* DeleteCategory; io = 1: os.RemoveAll fails
DeleteCategory(st, category, io) ==
  LET r1 == OsRemoveAll(st, Join(Root, category), io = 1)
  IN  IF category \notin DOMAIN st.List THEN Fail("nocategory", st)
      ELSE IF r1.err # "" THEN r1
      ELSE Ok([r1.st EXCEPT !.List =
                 [key \in {k \in DOMAIN @ : ~HasPrefix(k, category \o Slash) /\ k # category}
                    |-> @[key]]])

\* MovePaper; io = 1: the rename of the PDF fails, io = 2: the rename of the sidecar
MovePaper(st, paper, category, io) ==
  LET prevCategory == Dir(paper)
      ptr == st.List[prevCategory][paper]
      paperDest == Join(Join(Root, category), st.heap[ptr].PaperName \o PdfExt)
      r1 == OsRename(st, st.heap[ptr].PaperPath, paperDest, io = 1)
      newKey == Join(category, Base(paper))
      \* the destination key holds the same pointer, and PaperPath is set through it
      st1 == [r1.st EXCEPT !.List[category] = MapPut(@, newKey, ptr),
                           !.heap[ptr].PaperPath = paperDest]
      metaPath == st1.heap[ptr].MetaPath
      moveMeta == metaPath # <<>> /\ Stat(st1, metaPath)
      metaDest == Join(Join(Root, category), st1.heap[ptr].PaperName \o MetaExt)
      r2 == IF moveMeta THEN OsRename(st1, metaPath, metaDest, io = 2) ELSE Ok(st1)
      st2 == IF moveMeta THEN [r2.st EXCEPT !.heap[ptr].MetaPath = metaDest] ELSE r2.st
  IN  IF prevCategory \notin DOMAIN st.List THEN Fail("nocategory", st)
      ELSE IF category \notin DOMAIN st.List THEN Fail("nocategory", st)
      ELSE IF paper \notin DOMAIN st.List[prevCategory] THEN Fail("nopaper", st)
      ELSE IF paper \in DOMAIN st.List[category] THEN Fail("exists", st)
      ELSE IF r1.err # "" THEN r1
      ELSE IF r2.err # "" THEN r2
      ELSE Ok([st2 EXCEPT !.List[prevCategory] = MapDel(@, paper)])

\* MovePaper in the three parts another handler can run between. First part: the
\* checks, the rename of the PDF, the assignment of the destination key and of
\* PaperPath
MovePaperInsert(st, paper, category, io) ==
  LET prevCategory == Dir(paper)
      ptr == st.List[prevCategory][paper]
      paperDest == Join(Join(Root, category), st.heap[ptr].PaperName \o PdfExt)
      r1 == OsRename(st, st.heap[ptr].PaperPath, paperDest, io = 1)
      newKey == Join(category, Base(paper))
  IN  IF prevCategory \notin DOMAIN st.List THEN Fail("nocategory", st)
      ELSE IF category \notin DOMAIN st.List THEN Fail("nocategory", st)
      ELSE IF paper \notin DOMAIN st.List[prevCategory] THEN Fail("nopaper", st)
      ELSE IF paper \in DOMAIN st.List[category] THEN Fail("exists", st)
      ELSE IF r1.err # "" THEN r1
      ELSE Ok([r1.st EXCEPT !.List[category] = MapPut(@, newKey, ptr),
                            !.heap[ptr].PaperPath = paperDest])

\* second part: the sidecar, moved if there is one
MovePaperMeta(st, paper, category, io) ==
  LET ptr == st.List[Dir(paper)][paper]
      metaPath == st.heap[ptr].MetaPath
      moveMeta == metaPath # <<>> /\ Stat(st, metaPath)
      metaDest == Join(Join(Root, category), st.heap[ptr].PaperName \o MetaExt)
      r2 == IF moveMeta THEN OsRename(st, metaPath, metaDest, io = 2) ELSE Ok(st)
  IN  IF r2.err # "" THEN r2
      ELSE IF moveMeta THEN Ok([r2.st EXCEPT !.heap[ptr].MetaPath = metaDest])
      ELSE r2

\* third part: the old key is deleted
MovePaperDelete(st, paper) ==
  Ok([st EXCEPT !.List[Dir(paper)] = MapDel(@, paper)])

\* the keys RenameCategory gives the documents of oldCategory
RenameKey(newCategory, k) == Join(newCategory, Base(k))

\* Go ranges over a map in no fixed order: when two keys of oldCategory get the same
\* new key the later assignment wins; a winner function picks, for every new key,
\* the old key ranged over last
RenameWinners(st, oldCategory, newCategory) ==
  LET olds == DOMAIN st.List[oldCategory]
      news == {RenameKey(newCategory, k) : k \in olds}
  IN  {w \in [news -> olds] : \A n \in news : RenameKey(newCategory, w[n]) = n}

\* RenameCategory without the check that newCategory is not yet a key of papers.List
RenameCategoryOverExisting(st, oldCategory, newCategory, io, w) ==
  LET r1 == OsRename(st, Join(Root, oldCategory), Join(Root, newCategory), io = 1)
      olds == {st.List[oldCategory][k] : k \in DOMAIN st.List[oldCategory]}
      rewrite(v) ==
        [v EXCEPT !.PaperPath = Join(Root, Join(newCategory, v.PaperName \o PdfExt)),
                  !.MetaPath = IF v.MetaPath # <<>>
                                 THEN Join(Root, Join(newCategory, v.PaperName \o MetaExt))
                                 ELSE @]
  IN  IF oldCategory \notin DOMAIN st.List THEN Fail("nocategory", st)
      ELSE IF r1.err # "" THEN r1
      ELSE Ok([r1.st EXCEPT
                 !.List = MapDel(MapPut(@, newCategory,
                                        [n \in DOMAIN w |-> st.List[oldCategory][w[n]]]),
                                 oldCategory),
                 !.heap = [p \in DOMAIN @ |-> IF p \in olds THEN rewrite(@[p]) ELSE @[p]]])

\* RenameCategory that re-keys the index before it looks at the error of os.Rename
RenameCategoryIndexFirst(st, oldCategory, newCategory, io, w) ==
  LET r1 == OsRename(st, Join(Root, oldCategory), Join(Root, newCategory), io = 1)
  IN  IF oldCategory \notin DOMAIN st.List THEN Fail("nocategory", st)
      ELSE IF newCategory \in DOMAIN st.List THEN Fail("exists", st)
      ELSE [err |-> r1.err,
            st |-> [r1.st EXCEPT
                      !.List = MapDel(MapPut(@, newCategory,
                                             [n \in DOMAIN w |-> st.List[oldCategory][w[n]]]),
                                      oldCategory)]]

\* RenameCategory; io = 1: os.Rename fails; w is the winner function of the range
RenameCategory(st, oldCategory, newCategory, io, w) ==
  LET r1 == OsRename(st, Join(Root, oldCategory), Join(Root, newCategory), io = 1)
      olds == {st.List[oldCategory][k] : k \in DOMAIN st.List[oldCategory]}
      rewrite(v) ==
        [v EXCEPT !.PaperPath = Join(Root, Join(newCategory, v.PaperName \o PdfExt)),
                  !.MetaPath = IF v.MetaPath # <<>>
                                 THEN Join(Root, Join(newCategory, v.PaperName \o MetaExt))
                                 ELSE @]
  IN  IF oldCategory \notin DOMAIN st.List THEN Fail("nocategory", st)
      ELSE IF newCategory \in DOMAIN st.List THEN Fail("exists", st)
      ELSE IF r1.err # "" THEN r1
      ELSE Ok([r1.st EXCEPT
                 !.List = MapDel(MapPut(@, newCategory,
                                        [n \in DOMAIN w |-> st.List[oldCategory][w[n]]]),
                                 oldCategory),
                 !.heap = [p \in DOMAIN @ |-> IF p \in olds THEN rewrite(@[p]) ELSE @[p]]])

(***************************************************************************)
(* moving a download into the catalog                                      *)
(***************************************************************************)
\* copyFile; io names the step that fails: 1 os.Create, 2 io.Copy (the destination is
\* left partly written), 3 Sync, Stat or Chmod (the destination is complete)
copyFile(st, src, dst, io) ==
  LET r1 == OsCreate(st, dst, "", io = 1)
  IN  IF ~IsFile(st, src) THEN Fail("io", st)
      ELSE IF r1.err # "" THEN r1
      ELSE IF io = 2 THEN Fail("io", [r1.st EXCEPT !.files[dst] = "partial"])
      ELSE IF io = 3 THEN Fail("io", [r1.st EXCEPT !.files[dst] = st.files[src]])
      ELSE Ok([r1.st EXCEPT !.files[dst] = st.files[src]])

\* renameFile that removes the source whatever copyFile returned
renameFileRemoveAlways(st, src, dst, io) ==
  LET r1 == copyFile(st, src, dst, io)
  IN  IF src = dst THEN Ok(st)
      ELSE [err |-> r1.err, st |-> OsRemoveAll(r1.st, src, io = 4).st]

\* renameFile; io as for copyFile, and 4: os.RemoveAll of the source fails
renameFile(st, src, dst, io) ==
  LET r1 == copyFile(st, src, dst, io)
  IN  IF src = dst THEN Ok(st)
      ELSE IF r1.err # "" THEN r1
      ELSE OsRemoveAll(r1.st, src, io = 4)

\* ioutil.TempFile("", "tmp-*" ext): a new empty file under a name no file has
RECURSIVE FreeTemp(_, _, _)
FreeTemp(st, ext, n) ==
  LET name == TmpDir \o Slash \o <<"t">> \o Itoa(n) \o ext
  IN  IF Stat(st, name) THEN FreeTemp(st, ext, n + 1) ELSE name

TempName(st, ext) == FreeTemp(st, ext, 0)

TempFile(st, ext) == [st EXCEPT !.files = MapPut(@, TempName(st, ext), "")]

\* the deferred os.Remove(path) of a temporary file; its error is dropped
DeferredRemove(st, path) == OsRemove(st, path, FALSE).st

\* strings.ToLower on the letters of the model
ToLower(s) == [i \in 1..Len(s) |-> IF s[i] = "X" THEN "x" ELSE IF s[i] = "Y" THEN "y"
                                   ELSE IF s[i] = "Z" THEN "z" ELSE s[i]]

\* the contributors with sequence "first", in order
FirstAuthors(meta) ==
  SelectSeq(meta.Contributors, LAMBDA c : c.Sequence = "first")

\* getPaperFileNameFromMeta taking the first contributor, whatever its sequence
getPaperFileNameFromMetaAnySequence(meta) ==
  LET mainAuthor == Remove(meta.Contributors[1].LastName, Slash)
      pubYear == Remove(meta.PubYear, Slash)
  IN  IF mainAuthor = <<>> \/ meta.PubYear = <<>> THEN <<>>
      ELSE ToLower(mainAuthor) \o pubYear

\* getPaperFileNameFromMeta without strings.ToLower
getPaperFileNameFromMetaKeepCase(meta) ==
  LET mainAuthor == IF FirstAuthors(meta) = <<>> THEN <<>>
                    ELSE Remove(FirstAuthors(meta)[1].LastName, Slash)
      pubYear == Remove(meta.PubYear, Slash)
  IN  IF mainAuthor = <<>> \/ meta.PubYear = <<>> THEN <<>>
      ELSE mainAuthor \o pubYear

\* getPaperFileNameFromMeta: the second strings.Replace of each pair starts again
\* from the unreplaced field, so that only "/" is dropped
getPaperFileNameFromMeta(meta) ==
  LET mainAuthor == IF FirstAuthors(meta) = <<>> THEN <<>>
                    ELSE Remove(FirstAuthors(meta)[1].LastName, Slash)
      pubYear == Remove(meta.PubYear, Slash)
  IN  IF mainAuthor = <<>> \/ meta.PubYear = <<>> THEN <<>>
      ELSE ToLower(mainAuthor) \o pubYear

\* getPaperFileNameFromResp; resp.filename is the filename parameter of the
\* Content-Disposition header (<<>> when absent), resp.path the path of the final URL
getPaperFileNameFromResp(resp) ==
  LET filename == IF resp.filename # <<>> THEN resp.filename
                  ELSE TrimSuffix(Base(resp.path), Slash)
  IN  TrimSuffix(filename, PdfExt)

\* saveRespBody; resp.body is the body; http.MaxBytesReader makes io.Copy fail, after
\* os.Create, on a body longer than MAX_SIZE
saveRespBody(st, resp, path) ==
  LET r1 == OsCreate(st, path, "", FALSE)
  IN  IF r1.err # "" THEN r1
      ELSE IF BodyLen(resp.body) > MAX_SIZE THEN Fail("toolarge", [r1.st EXCEPT !.files[path] = "partial"])
      ELSE Ok([r1.st EXCEPT !.files[path] = resp.body])

\* papers.List[category][key] = &paper; assignment to an entry of a nil map panics
Register(st, category, key, paper) ==
  LET ptr == NewPtr(st.heap)
  IN  IF category \notin DOMAIN st.List THEN Fail("panic", st)
      ELSE Ok([st EXCEPT !.List[category] = MapPut(@, key, ptr),
                         !.heap = MapPut(@, ptr, paper)])

\* NewPaperFromDirectLink; io is the failing step of renameFile (0 none)
NewPaperFromDirectLink(st, resp, category, io) ==
  LET tmpPDF == TempName(st, PdfExt)
      st0 == TempFile(st, PdfExt)
      r1 == saveRespBody(st0, resp, tmpPDF)
      PaperName == getUniqueName(st, category, getPaperFileNameFromResp(resp))
      PaperPath == Join(Root, Join(category, PaperName \o PdfExt))
      paper == [ZeroPaper EXCEPT !.PaperName = PaperName, !.PaperPath = PaperPath]
      r2 == renameFile(r1.st, tmpPDF, PaperPath, io)
      r3 == Register(r2.st, category, Join(category, PaperName \o PdfExt), paper)
  IN  IF r1.err # "" THEN r1
      ELSE IF r2.err # "" THEN Fail(r2.err, DeferredRemove(r2.st, tmpPDF))
      ELSE [err |-> r3.err, st |-> DeferredRemove(r3.st, tmpPDF)]

\* getMetaFromDOI as NewPaperFromDOI calls it: the registry's reply is saved to a
\* temporary file, whose path is returned; reply = "fail" is a failed request, a
\* status other than 200 or another content type
getMetaFromDOI(st, reply) ==
  IF reply = "fail" THEN Fail("upstream", st)
  ELSE Ok([TempFile(st, <<".", "x", "m", "l">>) EXCEPT
             !.files[TempName(st, <<".", "x", "m", "l">>)] = reply])

\* getPaper; resp = "fail" is a failed request, a status other than 200 or a content
\* type other than application/pdf; the temporary file stays when saveRespBody fails
getPaper(st, resp) ==
  IF resp = "fail" THEN Fail("upstream", st)
  ELSE saveRespBody(TempFile(st, PdfExt), [body |-> resp], TempName(st, PdfExt))

\* NewPaperFromDOI, in the order of its statements; every part is given what the
\* parts before it computed. Last part: the entry is assigned and the deferred
\* removals of the two temporary files run
NewPaperFromDOICommit(r5, tmpPDF, tmpXML) ==
  [err |-> r5.err, st |-> DeferredRemove(DeferredRemove(r5.st, tmpPDF), tmpXML)]

\* after renameFile of the sidecar, which returned r4
NewPaperFromDOIMoveXml(r4, tmpPDF, tmpXML, category, paper) ==
  IF r4.err # "" THEN Fail(r4.err, DeferredRemove(DeferredRemove(r4.st, tmpPDF), tmpXML))
  ELSE NewPaperFromDOICommit(
         Register(r4.st, category, Join(category, paper.PaperName \o PdfExt), paper),
         tmpPDF, tmpXML)

\* after renameFile of the PDF, which returned r3
NewPaperFromDOIMovePdf(r3, tmpPDF, tmpXML, category, paper, ioXml) ==
  IF r3.err # "" THEN Fail(r3.err, DeferredRemove(DeferredRemove(r3.st, tmpPDF), tmpXML))
  ELSE NewPaperFromDOIMoveXml(renameFile(r3.st, tmpXML, paper.MetaPath, ioXml),
                              tmpPDF, tmpXML, category, paper)

\* after getPaper, which returned r2
NewPaperFromDOIFetch(r2, tmpPDF, tmpXML, category, paper, ioPdf, ioXml) ==
  IF r2.err # "" THEN Fail(r2.err, DeferredRemove(r2.st, tmpXML))
  ELSE NewPaperFromDOIMovePdf(renameFile(r2.st, tmpPDF, paper.PaperPath, ioPdf),
                              tmpPDF, tmpXML, category, paper, ioXml)

\* the Paper NewPaperFromDOI fills in
NewPaperFromDOIPaper(meta, category, uniqueName) ==
  [Meta |-> meta,
   MetaPath |-> Join(Join(Root, category), uniqueName \o MetaExt),
   PaperName |-> uniqueName,
   PaperPath |-> Join(Join(Root, category), uniqueName \o PdfExt)]

\* NewPaperFromDOI without the comparison of identifiers: a taken candidate is always
\* disambiguated
NewPaperFromDOINoDuplicateCheck(st, st1, tmpXML, meta, category, name, uniqueName, resp, ioPdf, ioXml) ==
  NewPaperFromDOIFetch(getPaper(st1, resp), TempName(st1, PdfExt), tmpXML, category,
                       NewPaperFromDOIPaper(meta, category, uniqueName), ioPdf, ioXml)

\* once the name and the unique name are known: the duplicate check, made in the
\* catalog st the call began in; st1 holds the temporary XML file
NewPaperFromDOICheck(st, st1, tmpXML, meta, category, name, uniqueName, resp, ioPdf, ioXml) ==
  IF name # uniqueName
     /\ meta.DOI = st.heap[st.List[category][Join(category, name \o PdfExt)]].Meta.DOI
    THEN Fail("duplicate", DeferredRemove(st1, tmpXML))
  ELSE NewPaperFromDOIFetch(getPaper(st1, resp), TempName(st1, PdfExt), tmpXML, category,
                            NewPaperFromDOIPaper(meta, category, uniqueName),
                            ioPdf, ioXml)

\* once the file name is known
NewPaperFromDOINamed(st, st1, tmpXML, meta, category, name, resp, ioPdf, ioXml) ==
  NewPaperFromDOICheck(st, st1, tmpXML, meta, category, name,
                       getUniqueName(st, category, name), resp, ioPdf, ioXml)

\* after getMetaFromDOI, which returned r1
NewPaperFromDOIDecode(st, r1, tmpXML, doi, category, reply, resp, ioPdf, ioXml) ==
  IF r1.err # "" THEN r1
  ELSE IF ~XmlWellFormed(reply) THEN Fail("xml", DeferredRemove(r1.st, tmpXML))
  ELSE NewPaperFromDOINamed(st, r1.st, tmpXML, XmlDecode(reply), category,
                            IF getPaperFileNameFromMeta(XmlDecode(reply)) = <<>>
                              THEN Remove(doi, Slash)
                              ELSE getPaperFileNameFromMeta(XmlDecode(reply)),
                            resp, ioPdf, ioXml)

\* NewPaperFromDOI; reply is the registry's answer, resp the mirror's, ioPdf and
\* ioXml the failing step of the two renameFile calls (0 none)
NewPaperFromDOI(st, doi, category, reply, resp, ioPdf, ioXml) ==
  NewPaperFromDOIDecode(st, getMetaFromDOI(st, reply), TempName(st, <<".", "x", "m", "l">>),
                        doi, category, reply, resp, ioPdf, ioXml)

(***************************************************************************)
(* the input of an acquisition                                             *)
(***************************************************************************)
Digits == {"0", "1", "2", "3", "4", "5", "6", "7", "8", "9"}

Letters == {"a", "b", "c", "d", "h", "p", "x", "y", "z", "X", "Y", "Z"}

\* the characters that end the two runs of getDOIFromBytes' expression:
\* [^\s"/<>] and [^\s"'<>,\{\};\[\]\?&]
DoiStop1 == {" ", "\"", "/", "<", ">"}

DoiStop2 == {" ", "\"", "'", "<", ">", ",", "{", "}", ";", "[", "]", "?", "&"}

\* the last position of the longest run from position i of characters of (keep = TRUE)
\* or outside (keep = FALSE) the set cs; i - 1 when the run is empty
RECURSIVE RunEnd(_, _, _, _)
RunEnd(s, i, cs, keep) ==
  IF i <= Len(s) /\ ((s[i] \in cs) = keep) THEN RunEnd(s, i + 1, cs, keep) ELSE i - 1

\* the match of (10[.][0-9]{4,}[^\s"/<>]*/[^\s"'<>,\{\};\[\]\?&]+) that begins at
\* position i, <<>> when there is none: the digits and the first run end before the
\* first "/" (no character of the run is a "/"), the second run is as long as it can be
DoiMatchAt(s, i) ==
  LET d == RunEnd(s, i + 3, Digits, TRUE)
      e == RunEnd(s, i + 3, DoiStop1, FALSE)
      f == RunEnd(s, e + 2, DoiStop2, FALSE)
  IN  IF /\ i + 2 <= Len(s)
         /\ SubSeq(s, i, i + 2) = <<"1", "0", ".">>
         /\ d >= i + 6
         /\ e + 1 <= Len(s)
         /\ s[e + 1] = "/"
         /\ f >= e + 2
        THEN SubSeq(s, i, f)
        ELSE <<>>

\* getDOIFromBytes: re.Find, the leftmost match; <<>> is nil
RECURSIVE DoiFindFrom(_, _)
DoiFindFrom(s, i) ==
  IF i > Len(s) THEN <<>>
  ELSE IF DoiMatchAt(s, i) # <<>> THEN DoiMatchAt(s, i)
  ELSE DoiFindFrom(s, i + 1)

getDOIFromBytes(b) == DoiFindFrom(b, 1)

\* url.Parse's getScheme: the position of the ":" that ends a scheme, 0 when the text
\* has no scheme, -1 when it begins with ":" (missing protocol scheme)
RECURSIVE SchemeEnd(_, _)
SchemeEnd(s, i) ==
  IF i > Len(s) THEN 0
  ELSE IF s[i] \in Letters THEN SchemeEnd(s, i + 1)
  ELSE IF s[i] \in Digits \cup {"+", "-", "."}
    THEN IF i = 1 THEN 0 ELSE SchemeEnd(s, i + 1)
  ELSE IF s[i] = ":" THEN IF i = 1 THEN -1 ELSE i
  ELSE 0

\* url.Parse, as far as ProcessAddPaperInput reads its result: ok = FALSE is a parse
\* error, for which the *URL returned is nil
UrlParse(s) ==
  LET c == SchemeEnd(s, 1)
      Scheme == IF c > 0 THEN SubSeq(s, 1, c - 1) ELSE <<>>
      rest == IF c > 0 THEN SubSeq(s, c + 1, Len(s)) ELSE s
      segment == SubSeq(rest, 1, RunEnd(rest, 1, {"/"}, FALSE))
      Host == SubSeq(rest, 3, RunEnd(rest, 3, {"/"}, FALSE))
  IN  IF c = -1 THEN [ok |-> FALSE]
      ELSE IF ~HasPrefix(rest, Slash)
        THEN IF Scheme = <<>> /\ \E i \in 1..Len(segment) : segment[i] = ":"
               THEN [ok |-> FALSE]
               ELSE [ok |-> TRUE, Scheme |-> Scheme, Host |-> <<>>]
      ELSE IF HasPrefix(rest, <<"/", "/">>) /\ (Scheme # <<>> \/ ~HasPrefix(rest, <<"/", "/", "/">>))
        THEN IF \E i \in 1..Len(Host) : Host[i] = " "
               THEN [ok |-> FALSE]
               ELSE [ok |-> TRUE, Scheme |-> Scheme, Host |-> Host]
      ELSE [ok |-> TRUE, Scheme |-> Scheme, Host |-> <<>>]

\* the category branch of AddHandler: nc is the form value new-category; io names the
\* iteration whose os.MkdirAll fails (0 none); err is res.Status ("" stands for
\* "category added successfully")
RECURSIVE AddLoop(_, _, _, _)
AddLoop(st, n, io, i) ==
  IF n = Dot THEN Ok(st)
  ELSE LET r1 == OsMkdirAll(st, Join(Root, n), io = i)
       IN  IF n \in DOMAIN st.List THEN Fail("exists", st)
           ELSE IF r1.err # "" THEN r1
           ELSE AddLoop([r1.st EXCEPT !.List = MapPut(@, n, EmptyMap)], Dir(n), io, i + 1)

\* the handlers' sanitising of a category name: strings.Trim(strings.Replace(s, "..",
\* "", -1), "/.")
Sanitize(s) == Trim(Remove(s, DotDot), {"/", "."})

AddCategory(st, nc, io) ==
  LET n == Sanitize(nc)
  IN  IF Trim(n, {" "}) = <<>> THEN Fail("nothing", st) ELSE AddLoop(st, n, io, 1)

\* getDOIFromPage: the identifier found on a fetched page, <<>> (nil) when none is
getDOIFromPage(page) == page.doi

\* the identifier ProcessAddPaperInput resolves the input to (<<>>: none): for a URL
\* the one on the page, else the one on the mirror's page; otherwise the one in the text
InputDOI(input, env) ==
  LET u == UrlParse(input)
  IN  IF u.Scheme # <<>> /\ u.Host # <<>>
        THEN IF getDOIFromPage(env.page) # <<>> THEN getDOIFromPage(env.page)
             ELSE getDOIFromPage(env.hub)
        ELSE getDOIFromBytes(input)

\* the second NewPaperFromDOI call of ProcessAddPaperInput: made when the first, which
\* returned r, failed and the input was a URL
RetryFromDOI(r, isURL, doi, category, try) ==
  IF r.err \in {"", "panic"} \/ ~isURL THEN r
  ELSE NewPaperFromDOI(r.st, doi, category, try.reply, try.resp, try.io[1], try.io[2])

\* the calls ProcessAddPaperInput makes once it has the identifier doi (<<>>: none)
AddFromDOI(st, category, isURL, doi, env) ==
  IF doi = <<>> THEN Fail(IF isURL THEN "nodoi" ELSE "invalid", st)
  ELSE RetryFromDOI(NewPaperFromDOI(st, doi, category, env.try1.reply, env.try1.resp,
                                    env.try1.io[1], env.try1.io[2]),
                    isURL, doi, category, env.try2)

\* what ProcessAddPaperInput does with the parsed input u
AddParsed(st, category, input, env, isURL) ==
  IF isURL /\ env.page.kind = "fail" THEN Fail("upstream", st)
  ELSE IF isURL /\ env.page.kind = "pdf"
    THEN NewPaperFromDirectLink(st, env.page.resp, category, env.io)
  ELSE IF isURL /\ getDOIFromPage(env.page) = <<>> /\ env.hub.kind = "fail"
    THEN Fail("upstream", st)
  ELSE AddFromDOI(st, category, isURL, InputDOI(input, env), env)

\* ProcessAddPaperInput; env holds what the network answers: page to
\* makeRequest(client, input) and hub to makeRequest(client, scihubURL+input) (kind
\* "fail", "pdf" with the response, or "page" with the identifier on it), try1 and
\* try2 to the two NewPaperFromDOI calls (reply, resp, io), io to renameFile in
\* NewPaperFromDirectLink. url.Parse's error is dropped and its nil *URL
\* dereferenced: a panic
ProcessAddPaperInput(st, category, input, env) ==
  IF ~UrlParse(input).ok THEN Fail("panic", st)
  ELSE AddParsed(st, category, input, env,
                 UrlParse(input).Scheme # <<>> /\ UrlParse(input).Host # <<>>)

\* the network calls of one NewPaperFromDOI call, in order: getMetaFromDOI asks the
\* registry, and getPaper asks the mirror for the identifier unless the call
\* returned before it
NewPaperFromDOIRequests(st, doi, category, reply) ==
  IF reply = "fail" \/ ~XmlWellFormed(reply) THEN <<"registry">>
  ELSE IF NewPaperFromDOI(st, doi, category, reply, "fail", 0, 0).err = "duplicate"
    THEN <<"registry">>
  ELSE <<"registry", "mirror">>

\* the network calls ProcessAddPaperInput makes once the first NewPaperFromDOI call
\* returned r: makeRequest(client, scihubURL+input) and a second NewPaperFromDOI call
RetryRequests(r, isURL, doi, category, try) ==
  IF r.err \in {"", "panic"} \/ ~isURL THEN <<>>
  ELSE <<"hub">> \o NewPaperFromDOIRequests(r.st, doi, category, try.reply)

\* the network calls ProcessAddPaperInput makes once it has the identifier doi
AddFromDOIRequests(st, category, isURL, doi, env) ==
  IF doi = <<>> THEN <<>>
  ELSE NewPaperFromDOIRequests(st, doi, category, env.try1.reply)
       \o RetryRequests(NewPaperFromDOI(st, doi, category, env.try1.reply, env.try1.resp,
                                        env.try1.io[1], env.try1.io[2]),
                        isURL, doi, category, env.try2)

\* the network calls of ProcessAddPaperInput, in order: "page" is
\* makeRequest(client, input), "hub" makeRequest(client, scihubURL+input)
ProcessAddPaperInputRequests(st, category, input, env, isURL) ==
  IF ~UrlParse(input).ok THEN <<>>
  ELSE IF ~isURL THEN AddFromDOIRequests(st, category, isURL, InputDOI(input, env), env)
  ELSE IF env.page.kind \in {"fail", "pdf"} THEN <<"page">>
  ELSE IF getDOIFromPage(env.page) # <<>>
    THEN <<"page">> \o AddFromDOIRequests(st, category, isURL, InputDOI(input, env), env)
  ELSE IF env.hub.kind = "fail" THEN <<"page", "hub">>
  ELSE <<"page", "hub">>
       \o AddFromDOIRequests(st, category, isURL, InputDOI(input, env), env)

(***************************************************************************)
(* the handlers of /admin/edit/ and /admin/add/. user and pass are the     *)
(* -user and -pass flags; a request r carries auth, what r.BasicAuth()     *)
(* returns, and the values of its form                                     *)
(***************************************************************************)
\* the handlers' test of the credentials with the password left out
AuthenticateUserOnly(user, pass, auth) ==
  ~(user # "" /\ pass # "") \/ (auth.ok /\ user = auth.username)

\* the handlers go on: no credentials are configured, or the request's match them
Authenticate(user, pass, auth) ==
  ~(user # "" /\ pass # "") \/ (auth.ok /\ user = auth.username /\ pass = auth.password)

\* the loops of EditHandler over r.Form["paper"] and r.Form["category"]: an item is
\* processed only while res.Status is empty, and the status is the item's error;
\* io holds the failure injected into each item's call (0 none)
RECURSIVE DeletePapers(_, _, _)
DeletePapers(r, paper, io) ==
  IF paper = <<>> \/ r.err # "" THEN r
  ELSE DeletePapers(DeletePaper(r.st, Head(paper), Head(io)), Tail(paper), Tail(io))

RECURSIVE DeleteCategories(_, _, _)
DeleteCategories(r, category, io) ==
  IF category = <<>> \/ r.err # "" THEN r
  ELSE DeleteCategories(DeleteCategory(r.st, Head(category), Head(io)),
                        Tail(category), Tail(io))

RECURSIVE MovePapers(_, _, _, _)
MovePapers(r, paper, destCategory, io) ==
  IF paper = <<>> \/ r.err # "" THEN r
  ELSE MovePapers(MovePaper(r.st, Head(paper), destCategory, Head(io)),
                  Tail(paper), destCategory, Tail(io))

\* no failure injected into any item of the list
NoFailure(items) == [i \in DOMAIN items |-> 0]

\* the delete branch going on to the categories whatever the papers' status was
EditHandlerDeleteCategoriesAnyway(st, form, ioPaper, ioCategory) ==
  LET r1 == DeletePapers(Ok(st), form.paper, ioPaper)
      r2 == DeleteCategories(Ok(r1.st), form.category, ioCategory)
  IN  [err |-> IF r1.err # "" THEN r1.err ELSE r2.err, st |-> r2.st]

\* the delete branch of EditHandler: the papers, then the categories
EditHandlerDelete(st, form, ioPaper, ioCategory) ==
  DeleteCategories(DeletePapers(Ok(st), form.paper, ioPaper), form.category, ioCategory)

\* EditHandler; w is the order in which RenameCategory's range visits the keys
EditHandler(st, user, pass, r, w) ==
  IF ~Authenticate(user, pass, r.auth) THEN Fail("Unauthorized", st)
  ELSE IF r.form.action = "delete"
    THEN EditHandlerDelete(st, r.form, NoFailure(r.form.paper),
                           NoFailure(r.form.category))
  ELSE IF r.form.action = "move"
    THEN MovePapers(Ok(st), r.form.paper, r.form.dest, NoFailure(r.form.paper))
  ELSE IF r.form.rc # <<>> /\ r.form.rt # <<>>
    THEN RenameCategory(st, Sanitize(r.form.rc), Sanitize(r.form.rt), 0, w)
  ELSE Ok(st)

\* AddHandler; env holds what the network answers
AddHandler(st, user, pass, r, env) ==
  IF ~Authenticate(user, pass, r.auth) THEN Fail("Unauthorized", st)
  ELSE IF Trim(r.form.p, {" "}) # <<>> /\ Trim(r.form.c, {" "}) # <<>>
    THEN ProcessAddPaperInput(st, r.form.c, r.form.p, env)
  ELSE AddCategory(st, r.form.nc, 0)

(***************************************************************************)
(* the guard on outbound connections                                       *)
(***************************************************************************)
\* a net.IP is a byte slice: 4 bytes, 16 bytes, or none (nil)
NilIP == <<>>

Zeros(n) == [i \in 1..n |-> 0]

\* the 16-byte form net.ParseIP gives a dotted IPv4 address
IPv4(a, b, c, d) == Zeros(10) \o <<255, 255, a, b, c, d>>

\* an IPv6 address with the given first two and last byte, zero in between
IPv6(a, b, z) == <<a, b>> \o Zeros(13) \o <<z>>

IPv6loopback == IPv6(0, 0, 1)

\* x & m for two bytes
RECURSIVE AndBits(_, _, _)
AndBits(x, m, n) ==
  IF n = 0 THEN 0
  ELSE 2 * AndBits(x \div 2, m \div 2, n - 1) + (x % 2) * (m % 2)

And(x, m) == AndBits(x, m, 8)

\* ip.To4(): the 4-byte form of an IPv4 address, nil for any other
To4(ip) ==
  IF Len(ip) = 4 THEN ip
  ELSE IF Len(ip) = 16 /\ SubSeq(ip, 1, 10) = Zeros(10) /\ ip[11] = 255 /\ ip[12] = 255
    THEN SubSeq(ip, 13, 16)
  ELSE NilIP

IsLoopback(ip) ==
  IF To4(ip) # NilIP THEN To4(ip)[1] = 127 ELSE ip = IPv6loopback

IsLinkLocalUnicast(ip) ==
  IF To4(ip) # NilIP THEN To4(ip)[1] = 169 /\ To4(ip)[2] = 254
  ELSE Len(ip) = 16 /\ ip[1] = 254 /\ And(ip[2], 192) = 128

IsLinkLocalMulticast(ip) ==
  IF To4(ip) # NilIP THEN To4(ip)[1] = 224 /\ To4(ip)[2] = 0 /\ To4(ip)[3] = 0
  ELSE Len(ip) = 16 /\ ip[1] = 255 /\ And(ip[2], 15) = 2

\* net.CIDRMask(ones, 8 * n): n bytes, the first ones bits set
CIDRMask(ones, n) ==
  [i \in 1..n |->
     IF ones >= 8 * i THEN 255
     ELSE IF ones <= 8 * (i - 1) THEN 0
     ELSE 256 - 2 ^ (8 * i - ones)]

\* net.ParseCIDR: the network of an address and a prefix length, the address masked
ParseCIDR(ip, ones) ==
  LET m == CIDRMask(ones, Len(ip))
  IN  [IP |-> [i \in 1..Len(ip) |-> And(ip[i], m[i])], Mask |-> m]

\* (*IPNet).Contains: an IPv4 address is compared in its 4-byte form, and an
\* address of another length than the network's is outside
Contains(block, ip) ==
  LET x == IF To4(ip) # NilIP THEN To4(ip) ELSE ip
  IN  /\ Len(x) = Len(block.IP)
      /\ \A i \in 1..Len(x) : And(block.IP[i], block.Mask[i]) = And(x[i], block.Mask[i])

privateIPBlocks ==
  <<ParseCIDR(<<127, 0, 0, 0>>, 8),
    ParseCIDR(<<10, 0, 0, 0>>, 8),
    ParseCIDR(<<172, 16, 0, 0>>, 12),
    ParseCIDR(<<192, 168, 0, 0>>, 16),
    ParseCIDR(<<169, 254, 0, 0>>, 16),
    ParseCIDR(IPv6(0, 0, 1), 128),
    ParseCIDR(IPv6(254, 128, 0), 10),
    ParseCIDR(IPv6(252, 0, 0), 7)>>

\* isPrivateIP without the test for link-local multicast
isPrivateIPUnicastOnly(ip) ==
  \/ IsLoopback(ip) \/ IsLinkLocalUnicast(ip)
  \/ \E n \in DOMAIN privateIPBlocks : Contains(privateIPBlocks[n], ip)

isPrivateIP(ip) ==
  \/ IsLoopback(ip) \/ IsLinkLocalUnicast(ip) \/ IsLinkLocalMulticast(ip)
  \/ \E n \in DOMAIN privateIPBlocks : Contains(privateIPBlocks[n], ip)

\* the address texts of the model and what net.ParseIP makes of them; any other
\* text, a bracketed address among them, is no address (nil)
T127 == <<"1", "2", "7", ".", "0", ".", "0", ".", "1">>
T10 == <<"1", "0", ".", "1", ".", "2", ".", "3">>
T93 == <<"9", "3", ".", "1", "8", "4", ".", "2", "1", "6", ".", "3", "4">>
T6Loop == <<":", ":", "1">>
T6Link == <<"f", "e", "8", "0", ":", ":", "1">>
T6Pub == <<"2", "0", "0", "1", ":", ":", "1">>

ParseIP(s) ==
  CASE s = T127 -> IPv4(127, 0, 0, 1)
    [] s = T10 -> IPv4(10, 1, 2, 3)
    [] s = T93 -> IPv4(93, 184, 216, 34)
    [] s = T6Loop -> IPv6loopback
    [] s = T6Link -> IPv6(254, 128, 1)
    [] s = T6Pub -> IPv6(32, 1, 1)
    [] OTHER -> NilIP

\* net.LookupHost: the text of an address is its own answer; a name gets the
\* resolver's answer, none when the lookup fails
LookupHost(host, answer) == IF ParseIP(host) # NilIP THEN <<host>> ELSE answer

\* net.SplitHostPort's host: the part before the last colon, without the brackets
\* of an IPv6 address
SplitHost(addr) ==
  LET h == SubSeq(addr, 1, LastIndex(addr, ":") - 1)
  IN  IF HasPrefix(h, <<"[">>) /\ HasSuffix(h, <<"]">>) THEN SubSeq(h, 2, Len(h) - 1) ELSE h

\* the transport's DialContext; answer is what the resolver tells LookupHost, again
\* what it tells net.Dial, which resolves addr itself. The result is the error, or
\* the addresses net.Dial connects to
DialContext(addr, answer, again) ==
  LET hosts == LookupHost(SubSeq(addr, 1, LastIndex(addr, ":") - 1), answer)
  IN  IF \E n \in DOMAIN hosts : isPrivateIP(ParseIP(hosts[n]))
        THEN [err |-> "blocked", to |-> {}]
        ELSE LET dialHosts == LookupHost(SplitHost(addr), again)
             IN  [err |-> "", to |-> {ParseIP(dialHosts[n]) : n \in DOMAIN dialHosts}]

\* the error DialContext returns to the transport, "" when the connection is made:
\* the guard's own errors.New("requests to private IPs are blocked"), or the error
\* of net.Dial, which finds no host or, with refused, no listener
DialContextError(addr, answer, again, refused) ==
  IF DialContext(addr, answer, again).err # "" THEN "requests to private IPs are blocked"
  ELSE IF DialContext(addr, answer, again).to = {} THEN "no such host"
  ELSE IF refused THEN "connection refused"
  ELSE ""

(***************************************************************************)
(* the state machine                                                       *)
(***************************************************************************)
VARIABLES
  List,    \* papers.List, with pointers for the *Paper values
  heap,    \* the Paper each pointer points to
  dirs,    \* the directories of the filesystem
  files,   \* the regular files of the filesystem and their contents
  clean,   \* no call has returned an error so far
  nops,    \* the number of calls made
  moving,  \* the MovePaper call another handler runs beside, and where it stands
  seen,    \* what the last IndexHandler request beside a MovePaper call got
  probe    \* an address given to isPrivateIP, or a dial, and its outcome

vars == <<List, heap, dirs, files, clean, nops, moving, seen, probe>>

\* no address has been classified and no dial made
NoProbe == [kind |-> "none"]

\* no MovePaper call is under way; no request has been served beside one
Idle == [pc |-> "idle"]

NotSeen == [fatal |-> FALSE, listed |-> {}]

\* the number of calls a behaviour makes
MaxOps == 2

Cur == [List |-> List, heap |-> heap, dirs |-> dirs, files |-> files]

\* strings of the model
A == <<"a">>
B == <<"b">>
AB == <<"a", "b">>
AC == <<"a", "/", "c">>
BC == <<"b", "/", "c">>
D == <<"d">>
DE == <<"d", "/", "e">>
X1 == <<"x", "1">>
Y == <<"y">>
Z == <<"z">>

InRoot(c, n) == Join(Root, Join(c, n))

\* the trees PopulatePapers may find at start-up
Disk1 ==
  [dirs |-> {Slash, TmpDir, Root, InRoot(A, <<>>), InRoot(AC, <<>>), InRoot(B, <<>>),
              InRoot(BC, <<>>)},
   files |-> [q \in {InRoot(A, X1 \o PdfExt), InRoot(A, X1 \o MetaExt),
                     InRoot(B, X1 \o PdfExt), InRoot(AC, Y \o PdfExt)} |->
                CASE q = InRoot(A, X1 \o PdfExt) -> "pdf1"
                  [] q = InRoot(A, X1 \o MetaExt) -> "xml1"
                  [] q = InRoot(B, X1 \o PdfExt) -> "pdf2"
                  [] q = InRoot(AC, Y \o PdfExt) -> "pdf3"]]

Disk2 ==
  [dirs |-> {Slash, TmpDir, Root, InRoot(A, <<>>), InRoot(AB, <<>>), InRoot(B, <<>>)},
   files |-> [q \in {InRoot(<<>>, Z \o PdfExt), InRoot(A, Y \o PdfExt),
                     InRoot(AB, Y \o PdfExt), InRoot(AB, Y \o MetaExt)} |->
                CASE q = InRoot(<<>>, Z \o PdfExt) -> "pdf1"
                  [] q = InRoot(A, Y \o PdfExt) -> "pdf2"
                  [] q = InRoot(AB, Y \o PdfExt) -> "pdf3"
                  [] q = InRoot(AB, Y \o MetaExt) -> "xml2"]]

Disks == {Disk1, Disk2}

\* main: papers.List is built by PopulatePapers, which must not fail
Init ==
  \E disk \in Disks :
    LET r == PopulatePapers([List |-> EmptyMap, heap |-> EmptyMap, dirs |-> disk.dirs,
                             files |-> disk.files])
    IN  /\ r.err = ""
        /\ List = r.st.List
        /\ heap = r.st.heap
        /\ dirs = r.st.dirs
        /\ files = r.st.files
        /\ clean = TRUE
        /\ nops = 0
        /\ moving = Idle
        /\ seen = NotSeen
        /\ probe = NoProbe

\* the behaviour makes a further call in this state
Calling == nops < MaxOps

\* a call returned r
Returned(r) ==
  LET st == Collect(r.st)
  IN  /\ List' = st.List
      /\ heap' = st.heap
      /\ dirs' = st.dirs
      /\ files' = st.files
      /\ clean' = (clean /\ r.err = "")
      /\ nops' = nops + 1
      /\ probe' = probe

\* a call that ran alone returned r
Return(r) ==
  /\ Returned(r)
  /\ UNCHANGED <<moving, seen>>

\* the arguments of the calls: the keys and categories of the index, and some that
\* may be missing
AllKeys == UNION {DOMAIN List[c] : c \in DOMAIN List}

PaperArgs == AllKeys \cup {Join(A, Z \o PdfExt), Join(D, Z \o PdfExt)}

CategoryArgs == DOMAIN List \cup {A, B, D}

NewCategoryArgs == {D, B, DE, <<"a", "/", "a">>}

\* the calls are made with every argument; a filesystem failure is injected only into
\* a call that passes its checks (in any other call no filesystem call is reached)
DoDeletePaper ==
  /\ Calling
  /\ \E paper \in PaperArgs :
       \E io \in IF HasKey(Cur, Dir(paper), paper) THEN 0..2 ELSE {0} :
         Return(DeletePaper(Cur, paper, io))

DoDeleteCategory ==
  /\ Calling
  /\ \E category \in CategoryArgs :
       \E io \in IF category \in DOMAIN List THEN 0..1 ELSE {0} :
         Return(DeleteCategory(Cur, category, io))

DoMovePaper ==
  /\ Calling
  /\ \E paper \in PaperArgs, category \in CategoryArgs :
       \E io \in IF HasKey(Cur, Dir(paper), paper) /\ category \in DOMAIN List
                   THEN 0..2 ELSE {0} :
         Return(MovePaper(Cur, paper, category, io))

\* EditHandler sanitises the form values rename-category and rename-to and calls
\* RenameCategory when neither form value is empty
DoRenameCategory ==
  /\ Calling
  /\ \E rc \in CategoryArgs, rt \in NewCategoryArgs :
       LET oldCategory == Sanitize(rc)
           newCategory == Sanitize(rt)
       IN  /\ rc # <<>> /\ rt # <<>>
           /\ \E io \in IF oldCategory \in DOMAIN List /\ newCategory \notin DOMAIN List
                         THEN 0..1 ELSE {0} :
                \E w \in IF oldCategory \in DOMAIN List
                           THEN RenameWinners(Cur, oldCategory, newCategory)
                           ELSE {EmptyMap} :
                  Return(RenameCategory(Cur, oldCategory, newCategory, io, w))

DoAddCategory ==
  /\ Calling
  /\ \E nc \in NewCategoryArgs \cup {<<".", ".", "/", "d", "/">>}, io \in 0..2 :
       Return(AddCategory(Cur, nc, io))

\* the registry's replies to a request for doi
Registry(doi) == {"fail", "bad"} \cup {x \in XmlDocs : XmlDecode(x).DOI = doi}

\* the mirror's responses
Mirror == {"fail", "big", "pdf9"}

\* the failing steps of the two renameFile calls of NewPaperFromDOI
MoveFailures == {<<0, 0>>, <<1, 0>>, <<2, 0>>, <<3, 0>>, <<4, 0>>,
                 <<0, 1>>, <<0, 2>>, <<0, 3>>, <<0, 4>>}

\* the categories downloads are requested for (the form value dl-category is passed
\* on as it is; "." names the directory papers.Path itself)
DownloadCategories == {A, D, Dot}

\* the categories the calls of a behaviour are made with: one of the index, one missing
DownloadCategoryArgs == {A, D}

DoNewPaperFromDOI ==
  /\ Calling
  /\ \E doi \in {Doi1, Doi2}, category \in DownloadCategoryArgs :
       \E reply \in Registry(doi) :
         \E resp \in IF XmlWellFormed(reply) THEN Mirror ELSE {"fail"} :
           \E io \in IF resp \in {"fail", "big"} THEN {<<0, 0>>} ELSE MoveFailures :
             Return(NewPaperFromDOI(Cur, doi, category, reply, resp, io[1], io[2]))

\* the responses to a direct link
Responses ==
  {[filename |-> f, path |-> <<"/", "p", "/">> \o Y \o PdfExt, body |-> b] :
     f \in {<<>>, X1 \o PdfExt, <<"c", "/">> \o Y \o PdfExt}, b \in {"pdf8", "big"}}

DoNewPaperFromDirectLink ==
  /\ Calling
  /\ \E resp \in Responses, category \in DownloadCategoryArgs :
       \E io \in IF resp.body = "big" THEN {0} ELSE 0..4 :
         Return(NewPaperFromDirectLink(Cur, resp, category, io))

\* the texts entered as dl-paper: a URL, an identifier, a text with an identifier in
\* it, a scheme before an identifier, and texts with neither
InUrl == <<"h", ":", "/", "/", "h", "/", "p">>

InputArgs ==
  {InUrl, Doi1, <<"x", " ">> \o Doi2, <<"h", ":">> \o Doi1, <<"x">>, <<":", "x">>,
   <<"1", "0", ".", "1", "/", "a">>}

\* what the publisher's page and the mirror's page answer
Pages ==
  {[kind |-> "fail", doi |-> <<>>], [kind |-> "page", doi |-> <<>>],
   [kind |-> "page", doi |-> Doi1],
   [kind |-> "pdf", doi |-> <<>>,
    resp |-> [filename |-> <<>>, path |-> <<"/", "p", "/">> \o Y \o PdfExt, body |-> "pdf8"]]}

HubPages ==
  {[kind |-> "fail", doi |-> <<>>], [kind |-> "page", doi |-> <<>>],
   [kind |-> "page", doi |-> Doi2]}

\* the registry's and the mirror's answers to one NewPaperFromDOI call
Tries(doi) ==
  {[reply |-> reply, resp |-> resp, io |-> <<0, 0>>] :
     reply \in Registry(doi) \ {"bad"}, resp \in {"fail", "pdf9"}}

NoTry == [reply |-> "fail", resp |-> "fail", io |-> <<0, 0>>]

\* the answers to the second call that are drawn in a behaviour: the registry does
\* not answer, or registry and mirror both do
Retries(doi) ==
  {NoTry} \cup {t \in Tries(doi) : t.resp = "pdf9"}

\* AddHandler: the download branch, taken when dl-paper and dl-category are not blank.
\* Only the answers the call gets to are drawn
DoProcessAddPaperInput ==
  /\ Calling
  /\ \E input \in InputArgs, category \in DownloadCategoryArgs :
       LET u == UrlParse(input)
           isURL == u.ok /\ u.Scheme # <<>> /\ u.Host # <<>>
       IN  \E page \in IF isURL THEN Pages ELSE {[kind |-> "fail", doi |-> <<>>]} :
             \E hub \in IF isURL /\ page.kind = "page" /\ page.doi = <<>>
                          THEN HubPages ELSE {[kind |-> "fail", doi |-> <<>>]} :
               LET part == [page |-> page, hub |-> hub, io |-> 0]
                   doi == IF u.ok THEN InputDOI(input, part) ELSE <<>>
                   called == doi # <<>> /\ page.kind # "pdf"
               IN  \E try1 \in IF called THEN Tries(doi) ELSE {NoTry} :
                     \E try2 \in IF called /\ isURL /\ try1.resp = "fail"
                                   THEN Retries(doi) ELSE {NoTry} :
                       Return(ProcessAddPaperInput(Cur, category, input,
                                [page |-> page, hub |-> hub, io |-> 0,
                                 try1 |-> try1, try2 |-> try2]))

Next ==
  \/ DoDeletePaper
  \/ DoDeleteCategory
  \/ DoMovePaper
  \/ DoRenameCategory
  \/ DoAddCategory
  \/ DoNewPaperFromDOI
  \/ DoNewPaperFromDirectLink
  \/ DoProcessAddPaperInput

Spec == Init /\ [][Next]_vars

(***************************************************************************)
(* handlers running side by side: net/http serves every request in its own *)
(* goroutine and no handler takes a lock, so an IndexHandler request can   *)
(* run between any two statements of a MovePaper call                      *)
(***************************************************************************)
\* the categories whose listing holds the document of the MovePaper call under way
ListedIn(st, paper) ==
  LET prev == Dir(paper)
  IN  IF prev \in DOMAIN st.List /\ paper \in DOMAIN st.List[prev]
        THEN {c \in DOMAIN st.List :
                \E k \in DOMAIN st.List[c] : st.List[c][k] = st.List[prev][paper]}
        ELSE {}

\* the state a part of the call leaves, the call still under way
Reached(r) ==
  /\ List' = r.st.List
  /\ heap' = r.st.heap
  /\ dirs' = r.st.dirs
  /\ files' = r.st.files
  /\ UNCHANGED <<clean, nops, probe>>

\* EditHandler calls MovePaper: up to the assignment of the destination key
MovePaperEnter ==
  /\ Calling
  /\ moving = Idle
  /\ ~seen.fatal
  /\ \E paper \in PaperArgs, category \in CategoryArgs :
       \E io \in IF HasKey(Cur, Dir(paper), paper) /\ category \in DOMAIN List
                   THEN 0..2 ELSE {0} :
         LET r == MovePaperInsert(Cur, paper, category, io)
         IN  IF r.err # ""
               THEN Return(r)
               ELSE /\ Reached(r)
                    /\ moving' = [pc |-> "meta", paper |-> paper, category |-> category,
                                  io |-> io]
                    /\ seen' = seen

\* the call goes on: the sidecar
MovePaperSidecar ==
  /\ moving.pc = "meta"
  /\ ~seen.fatal
  /\ LET r == MovePaperMeta(Cur, moving.paper, moving.category, moving.io)
     IN  IF r.err # ""
           THEN Returned(r) /\ moving' = Idle /\ seen' = seen
           ELSE Reached(r) /\ moving' = [moving EXCEPT !.pc = "delete"] /\ seen' = seen

\* the call deletes the old key and returns
MovePaperLeave ==
  /\ moving.pc = "delete"
  /\ ~seen.fatal
  /\ Returned(MovePaperDelete(Cur, moving.paper))
  /\ moving' = Idle
  /\ seen' = seen

\* IndexHandler renders papers.List while a MovePaper call is under way. It reads
\* the maps the call writes without synchronisation, a data race: the request is
\* served from the maps as they are, or the runtime detects the concurrent map
\* access and ends the process
IndexHandler ==
  /\ moving # Idle
  /\ ~seen.fatal
  /\ seen' \in {[fatal |-> FALSE, listed |-> ListedIn(Cur, moving.paper)],
                [fatal |-> TRUE, listed |-> {}]}
  /\ UNCHANGED <<List, heap, dirs, files, clean, nops, moving, probe>>

NextHandlers ==
  \/ MovePaperEnter
  \/ MovePaperSidecar
  \/ MovePaperLeave
  \/ IndexHandler

SpecHandlers == Init /\ [][NextHandlers]_vars

(***************************************************************************)
(* the guard on its own: every address classified, every target dialled    *)
(***************************************************************************)
\* the bytes the addresses are made of: the bounds of the blocked networks, their
\* neighbours, and bytes of public addresses
FirstBytes == {0, 9, 10, 11, 93, 126, 127, 128, 169, 172, 192, 223, 224, 225, 255}

SecondBytes == {0, 1, 15, 16, 31, 32, 167, 168, 169, 184, 253, 254, 255}

FirstBytes6 == {0, 32, 251, 252, 253, 254, 255}

SecondBytes6 == {0, 1, 2, 18, 127, 128, 191, 192, 255}

\* the addresses isPrivateIP is given: IPv4 in both forms, IPv6, and nil
Addresses ==
  {IPv4(a, b, c, d) : a \in FirstBytes, b \in SecondBytes, c \in {0, 1, 2, 216}, d \in {1, 3, 34}}
  \cup {<<a, b, 0, 1>> : a \in FirstBytes, b \in SecondBytes}
  \cup {IPv6(a, b, z) : a \in FirstBytes6, b \in SecondBytes6, z \in 0..2}
  \cup {NilIP}

Port == <<":", "8", "0">>

\* the targets the transport dials: addresses, bracketed IPv6 addresses, and names
Targets ==
  {t \o Port : t \in {T127, T10, T93, <<"h">>, <<"[">> \o T6Loop \o <<"]">>,
                       <<"[">> \o T6Link \o <<"]">>, <<"[">> \o T6Pub \o <<"]">>}}

\* the resolver's answers for a name: none, a public address, a private one, both
Answers == {<<>>, <<T93>>, <<T10>>, <<T93, T127>>, <<T6Pub>>}

\* main installs DialContext before the index is built
InitGuard ==
  /\ List = EmptyMap
  /\ heap = EmptyMap
  /\ dirs = {}
  /\ files = EmptyMap
  /\ clean = TRUE
  /\ nops = 0
  /\ moving = Idle
  /\ seen = NotSeen
  /\ probe \in {[kind |-> "ip", ip |-> ip, out |-> "none"] : ip \in Addresses}
             \cup {[kind |-> "dial", addr |-> addr, answer |-> answer, again |-> again,
                    refused |-> refused, out |-> "none", to |-> {}, err |-> ""] :
                     addr \in Targets, answer \in Answers, again \in Answers,
                     refused \in BOOLEAN}

\* isPrivateIP is applied to the address
Classify ==
  /\ probe.kind = "ip"
  /\ probe.out = "none"
  /\ probe' = [probe EXCEPT !.out = IF isPrivateIP(probe.ip) THEN "blocked" ELSE "allowed"]
  /\ UNCHANGED <<List, heap, dirs, files, clean, nops, moving, seen>>

\* the transport dials the target
Dial ==
  /\ probe.kind = "dial"
  /\ probe.out = "none"
  /\ LET r == DialContext(probe.addr, probe.answer, probe.again)
     IN  probe' = [probe EXCEPT !.out = IF r.err # "" THEN "blocked" ELSE "dialled",
                                !.to = r.to,
                                !.err = DialContextError(probe.addr, probe.answer,
                                                         probe.again, probe.refused)]
  /\ UNCHANGED <<List, heap, dirs, files, clean, nops, moving, seen>>

NextGuard ==
  \/ Classify
  \/ Dial

SpecGuard == InitGuard /\ [][NextGuard]_vars

(***************************************************************************)
(* what the claims speak of                                                *)
(***************************************************************************)
\* the path fields of an index: category -> key -> <<PaperPath, MetaPath>>
PathFields(st) ==
  [c \in DOMAIN st.List |->
     [k \in DOMAIN st.List[c] |->
        <<st.heap[st.List[c][k]].PaperPath, st.heap[st.List[c][k]].MetaPath>>]]

\* the index of st is the one a walk of st's filesystem builds
MatchesWalk(st) ==
  LET w == PopulatePapers(st)
  IN  w.err = "" /\ PathFields(st) = PathFields(w.st)

\* the filesystem of st
Disk(st) == <<st.dirs, st.files>>

\* the winner functions of a RenameCategory call (one, unless keys collide)
Winners(c, d) == IF c \in DOMAIN List THEN RenameWinners(Cur, c, d) ELSE {EmptyMap}

\* C1: after any sequence of catalog operations that all returned nil, the index
\* equals the index a fresh PopulatePapers walk of the filesystem builds (same
\* category keys, same document keys, same PaperPath and MetaPath)
C1_IndexMatchesWalk == clean => MatchesWalk(Cur)

\* C2: a DeletePaper, DeleteCategory, MovePaper or RenameCategory call that returns
\* an error leaves the index exactly as it was (keys and every field of every Paper)
C2_ErrorLeavesIndex ==
  /\ \A paper \in PaperArgs, io \in 0..2 :
       LET r == DeletePaper(Cur, paper, io)
       IN  r.err # "" => Deref(r.st) = Deref(Cur)
  /\ \A category \in CategoryArgs, io \in 0..1 :
       LET r == DeleteCategory(Cur, category, io)
       IN  r.err # "" => Deref(r.st) = Deref(Cur)
  /\ \A paper \in PaperArgs, category \in CategoryArgs, io \in 0..2 :
       LET r == MovePaper(Cur, paper, category, io)
       IN  r.err # "" => Deref(r.st) = Deref(Cur)
  /\ \A c \in CategoryArgs, d \in NewCategoryArgs, io \in 0..1 :
       \A w \in Winners(c, d) :
         LET r == RenameCategory(Cur, c, d, io, w)
         IN  r.err # "" => Deref(r.st) = Deref(Cur)

\* C3: MovePaper(p, D) returns an error and changes neither the filesystem nor the
\* index when D is not a category or already holds the key D/<file name of p>; a
\* move that succeeds leaves every document D held in the index, with its file
C3_MoveNeverOverwrites ==
  \A paper \in PaperArgs, category \in CategoryArgs, io \in 0..2 :
    LET r == MovePaper(Cur, paper, category, io)
    IN  /\ (category \notin DOMAIN List
              \/ HasKey(Cur, category, Join(category, Base(paper))))
          => r.err # "" /\ r.st = Cur
        /\ (r.err = "" /\ category \in DOMAIN List)
          => \A k \in DOMAIN List[category] :
               /\ HasKey(r.st, category, k)
               /\ r.st.heap[r.st.List[category][k]] = heap[List[category][k]]
               /\ IsFile(Cur, heap[List[category][k]].PaperPath)
                    => /\ IsFile(r.st, heap[List[category][k]].PaperPath)
                       /\ r.st.files[heap[List[category][k]].PaperPath]
                            = files[heap[List[category][k]].PaperPath]

\* the key of a category below c, under d
Relabel(key, c, d) == d \o SubSeq(key, Len(c) + 1, Len(key))

\* C4: after a successful RenameCategory(C, D) no category key equal to C or
\* beginning with C/ remains, and every document keyed under a subcategory C/... is
\* keyed under the corresponding D/... with its paths rewritten to the new place
C4_RenameRekeysSubcategories ==
  \A c \in CategoryArgs, d \in NewCategoryArgs :
    \A w \in Winners(c, d) :
      LET r == RenameCategory(Cur, c, d, 0, w)
      IN  r.err = "" =>
            /\ \A key \in DOMAIN r.st.List : key # c /\ ~HasPrefix(key, c \o Slash)
            /\ \A sub \in {x \in DOMAIN List : HasPrefix(x, c \o Slash)} :
                 \A k \in DOMAIN List[sub] :
                   LET nsub == Relabel(sub, c, d)
                       nk == Join(nsub, Base(k))
                   IN  /\ HasKey(r.st, nsub, nk)
                       /\ r.st.heap[r.st.List[nsub][nk]].PaperPath = Join(Root, nk)

\* the file name of a document key without its extension
Stem(k) == TrimSuffix(Base(k), PdfExt)

\* C5: after a successful RenameCategory(C, D) every document keyed directly in C is
\* keyed in D as D/<same file name> with its Metadata unchanged, its PaperPath
\* root/D/<name>.pdf and its MetaPath, when it had one, root/D/<name>.meta.xml; D
\* holds as many documents as C held
C5_RenameRekeysDocuments ==
  \A c \in CategoryArgs, d \in NewCategoryArgs :
    \A w \in Winners(c, d) :
      LET r == RenameCategory(Cur, c, d, 0, w)
      IN  r.err = "" =>
            /\ d \in DOMAIN r.st.List
            /\ Cardinality(DOMAIN r.st.List[d]) = Cardinality(DOMAIN List[c])
            /\ \A k \in DOMAIN List[c] :
                 LET nk == Join(d, Base(k))
                     was == heap[List[c][k]]
                 IN  /\ HasKey(r.st, d, nk)
                     /\ r.st.heap[r.st.List[d][nk]].Meta = was.Meta
                     /\ r.st.heap[r.st.List[d][nk]].PaperPath = Join(Root, nk)
                     /\ r.st.heap[r.st.List[d][nk]].MetaPath =
                          IF was.MetaPath # <<>>
                            THEN Join(Root, Join(d, Stem(k) \o MetaExt)) ELSE <<>>

\* C6: RenameCategory(C, D) returns an error and leaves the filesystem and the index
\* unchanged when D is already a category key of the index, and also when C is not a
\* category key (of every call a behaviour makes)
C6_RenameRefusesExisting ==
  Calling =>
  \A c \in CategoryArgs, d \in NewCategoryArgs \cup CategoryArgs, io \in 0..1 :
    \A w \in Winners(c, d) :
      LET r == RenameCategory(Cur, c, d, io, w)
      IN  (d \in DOMAIN List \/ c \notin DOMAIN List)
            => r.err # "" /\ Disk(r.st) = Disk(Cur) /\ Deref(r.st) = Deref(Cur)

\* a category that could be renamed onto another on disk (the other's directory is
\* empty) is refused because the other is a key of the index
C6_Witness ==
  \E c \in DOMAIN List, d \in DOMAIN List :
    /\ Calling
    /\ c # d
    /\ DOMAIN List[c] # {}
    /\ OsRename(Cur, Join(Root, c), Join(Root, d), FALSE).err = ""
    /\ \E w \in Winners(c, d) : RenameCategory(Cur, c, d, 0, w).err = "exists"

\* C7: after a successful DeleteCategory(C) the index holds neither the key C nor any
\* category key beginning with C/, so no document that was under C or below it can be
\* looked up (of every call a behaviour makes)
C7_DeleteRemovesDescendants ==
  Calling =>
  \A c \in CategoryArgs, io \in 0..1 :
    LET r == DeleteCategory(Cur, c, io)
    IN  r.err = "" =>
          /\ \A key \in DOMAIN r.st.List : key # c /\ ~HasPrefix(key, c \o Slash)
          /\ \A key \in DOMAIN List :
               (key = c \/ HasPrefix(key, c \o Slash))
                 => \A k \in DOMAIN List[key] : ~HasKey(r.st, key, k)

\* a category with a subcategory that holds a document is deleted
C7_Witness ==
  \E c \in DOMAIN List, sub \in DOMAIN List :
    /\ Calling
    /\ HasPrefix(sub, c \o Slash)
    /\ DOMAIN List[sub] # {}
    /\ DeleteCategory(Cur, c, 0).err = ""
    /\ sub \notin DOMAIN DeleteCategory(Cur, c, 0).st.List

\* C8: after a successful MovePaper(p, D) the document is keyed in D as
\* D/<file name of p> with PaperPath root/D/<name>.pdf, the file at that path has the
\* content the original file had, its sidecar (when one existed) is at
\* root/D/<name>.meta.xml with MetaPath updated, and the key p is absent from its
\* original category
C8_MoveRekeysDocument ==
  \A paper \in PaperArgs, category \in CategoryArgs, io \in 0..2 :
    LET r == MovePaper(Cur, paper, category, io)
        was == heap[List[Dir(paper)][paper]]
        nk == Join(category, Base(paper))
        metaDest == Join(Root, Join(category, Stem(paper) \o MetaExt))
    IN  r.err = "" =>
          /\ HasKey(r.st, category, nk)
          /\ r.st.heap[r.st.List[category][nk]].PaperPath = Join(Root, nk)
          /\ IsFile(r.st, Join(Root, nk))
          /\ r.st.files[Join(Root, nk)] = files[was.PaperPath]
          /\ (was.MetaPath # <<>> /\ IsFile(Cur, was.MetaPath))
               => /\ r.st.heap[r.st.List[category][nk]].MetaPath = metaDest
                  /\ IsFile(r.st, metaDest)
                  /\ r.st.files[metaDest] = files[was.MetaPath]
          /\ ~HasKey(r.st, Dir(paper), paper)

\* C9: DeletePaper, DeleteCategory, MovePaper and RenameCategory return an error and
\* leave every file and directory as it was when a category or document key they
\* refer to is absent from the index (of every call a behaviour makes)
C9_ChecksBeforeSideEffects ==
  Calling =>
  /\ \A paper \in PaperArgs, io \in 0..2 :
       LET r == DeletePaper(Cur, paper, io)
       IN  ~HasKey(Cur, Dir(paper), paper) => r.err # "" /\ Disk(r.st) = Disk(Cur)
  /\ \A category \in CategoryArgs, io \in 0..1 :
       LET r == DeleteCategory(Cur, category, io)
       IN  category \notin DOMAIN List => r.err # "" /\ Disk(r.st) = Disk(Cur)
  /\ \A paper \in PaperArgs, category \in CategoryArgs, io \in 0..2 :
       LET r == MovePaper(Cur, paper, category, io)
       IN  (~HasKey(Cur, Dir(paper), paper) \/ category \notin DOMAIN List)
             => r.err # "" /\ Disk(r.st) = Disk(Cur)
  /\ \A c \in CategoryArgs, d \in NewCategoryArgs, io \in 0..1 :
       \A w \in Winners(c, d) :
         LET r == RenameCategory(Cur, c, d, io, w)
         IN  c \notin DOMAIN List => r.err # "" /\ Disk(r.st) = Disk(Cur)

\* each of the four operations is refused for an absent key: a document that is not
\* in its category, a category that is not in the index, a move of an indexed
\* document into such a category, and a rename of such a category
C9_Witness ==
  /\ Calling
  /\ \E paper \in PaperArgs :
       Dir(paper) \in DOMAIN List /\ DeletePaper(Cur, paper, 0).err = "nopaper"
  /\ \E category \in CategoryArgs : DeleteCategory(Cur, category, 0).err = "nocategory"
  /\ \E paper \in AllKeys, category \in CategoryArgs \ DOMAIN List :
       /\ HasKey(Cur, Dir(paper), paper)
       /\ IsFile(Cur, heap[List[Dir(paper)][paper]].PaperPath)
       /\ MovePaper(Cur, paper, category, 0).err = "nocategory"
  /\ \E c \in CategoryArgs \ DOMAIN List, d \in NewCategoryArgs \ DOMAIN List :
       RenameCategory(Cur, c, d, 0, EmptyMap).err = "nocategory"

\* the candidates getUniqueName is asked about
NameArgs == {X1, Y, Z, X1 \o <<"-", "2">>, <<"c", "/">> \o Y, <<".", "/">> \o X1}

\* C10: for every category C and candidate n, getUniqueName(C, n) returns a name r
\* such that C/r.pdf is not a document key of category C (in every state in
\* which a behaviour makes a call)
C10_UniqueNameIsFree ==
  Calling =>
  \A c \in CategoryArgs, n \in NameArgs :
    LET r == getUniqueName(Cur, c, n)
    IN  /\ ~HasKey(Cur, c, c \o Slash \o r \o PdfExt)
        /\ ~HasKey(Cur, c, Join(c, r \o PdfExt))

\* the candidate and the candidate with -2 are both taken, and a third name is
\* returned
C10_Witness ==
  \E c \in DOMAIN List, n \in NameArgs :
    /\ Calling
    /\ HasKey(Cur, c, Join(c, n \o PdfExt))
    /\ HasKey(Cur, c, Join(c, n \o <<"-", "2">> \o PdfExt))
    /\ getUniqueName(Cur, c, n) = n \o <<"-", "2", "-", "3">>

\* the name n-k
Suffixed(n, k) == n \o <<"-">> \o Itoa(k)

\* the first of n, n-2, n-3, ... (each formed from n) whose key is free in category c
RECURSIVE FirstFreeFrom(_, _, _)
FirstFreeFrom(c, n, k) ==
  IF ~HasKey(Cur, c, Join(c, Suffixed(n, k) \o PdfExt)) THEN Suffixed(n, k)
  ELSE FirstFreeFrom(c, n, k + 1)

FirstFree(c, n) ==
  IF ~HasKey(Cur, c, Join(c, n \o PdfExt)) THEN n ELSE FirstFreeFrom(c, n, 2)

\* C11: getUniqueName(C, n) returns n when C/n.pdf is free, and otherwise n-k for the
\* smallest k >= 2 such that C/n-k.pdf is free: n, n-2, n-3, ... are probed in that
\* order, each formed from the original candidate n
C11_UniqueNameProbesInOrder ==
  \A c \in CategoryArgs, n \in NameArgs : getUniqueName(Cur, c, n) = FirstFree(c, n)

HeldWithDOI(st, c, doi) ==
  IF c \in DOMAIN st.List
    THEN {k \in DOMAIN st.List[c] : st.heap[st.List[c][k]].Meta.DOI = doi}
    ELSE {}

\* C13: of two acquisition requests for the same identifier made one after the other
\* in the same category, when the first succeeds (and inserts exactly one entry) the
\* second fails with the already-downloaded error, and the category then holds
\* exactly one entry with that identifier; also when the category already held a
\* different document with the same author/year candidate
C13_SecondRequestIsDuplicate ==
  \A doi \in {Doi1, Doi2}, category \in DownloadCategories :
    \A reply \in Registry(doi) \cap XmlDocs :
      LET r1 == NewPaperFromDOI(Cur, doi, category, reply, "pdf9", 0, 0)
          r2 == NewPaperFromDOI(r1.st, doi, category, reply, "pdf9", 0, 0)
      IN  r1.err = "" =>
            /\ Cardinality(DOMAIN r1.st.List[category])
                 = Cardinality(DOMAIN List[category]) + 1
            /\ r2.err = "duplicate"
            /\ Cardinality(HeldWithDOI(r2.st, category, doi)) = 1

\* the name candidate of NewPaperFromDOI for the registry's record
Candidate(doi, reply) ==
  LET fromMeta == getPaperFileNameFromMeta(XmlDecode(reply))
  IN  IF fromMeta = <<>> THEN Remove(doi, Slash) ELSE fromMeta

\* C14: when the candidate's key is taken by an entry with the identifier of the new
\* Metadata, NewPaperFromDOI returns the duplicate error whatever the mirror would
\* answer, and no file and no index entry changes; when the identifiers differ and
\* the download succeeds, the document is committed under the disambiguated name and
\* the existing entry and its file are unchanged (in every state in which a
\* behaviour makes a call)
C14_DuplicateCheck ==
  Calling =>
  \A doi \in {Doi1, Doi2}, category \in DownloadCategories :
    \A reply \in Registry(doi) \cap XmlDocs :
      HasKey(Cur, category, Join(category, Candidate(doi, reply) \o PdfExt)) =>
      \A resp \in Mirror, io \in MoveFailures :
      LET name == Candidate(doi, reply)
          key == Join(category, name \o PdfExt)
          old == heap[List[category][key]]
          unique == getUniqueName(Cur, category, name)
          newKey == Join(category, unique \o PdfExt)
          r == NewPaperFromDOI(Cur, doi, category, reply, resp, io[1], io[2])
      IN  HasKey(Cur, category, key) =>
            IF old.Meta.DOI = XmlDecode(reply).DOI
              THEN r.err = "duplicate" /\ Deref(r.st) = Deref(Cur) /\ Disk(r.st) = Disk(Cur)
              ELSE (resp = "pdf9" /\ io = <<0, 0>>) =>
                     /\ r.err = ""
                     /\ newKey # key
                     /\ HasKey(r.st, category, newKey)
                     /\ r.st.heap[r.st.List[category][newKey]].PaperName = unique
                     /\ HasKey(r.st, category, key)
                     /\ r.st.heap[r.st.List[category][key]] = old
                     /\ IsFile(Cur, old.PaperPath)
                          => /\ IsFile(r.st, old.PaperPath)
                             /\ r.st.files[old.PaperPath] = files[old.PaperPath]

\* one category holds a document whose identifier is requested again (refused) and
\* whose author/year candidate is shared by a record with another identifier
\* (committed under the disambiguated name)
C14_Witness ==
  \E category \in DownloadCategories, d1 \in {Doi1, Doi2}, d2 \in {Doi1, Doi2} :
    \E reply1 \in Registry(d1) \cap XmlDocs, reply2 \in Registry(d2) \cap XmlDocs :
      LET key == Join(category, Candidate(d1, reply1) \o PdfExt)
      IN  /\ Calling
          /\ d1 # d2
          /\ Candidate(d1, reply1) = Candidate(d2, reply2)
          /\ HasKey(Cur, category, key)
          /\ heap[List[category][key]].Meta.DOI = d1
          /\ NewPaperFromDOI(Cur, d1, category, reply1, "pdf9", 0, 0).err = "duplicate"
          /\ NewPaperFromDOI(Cur, d2, category, reply2, "pdf9", 0, 0).err = ""

\* the visible tree of st: the directories and files at or below papers.Path
Visible(st) ==
  <<{q \in st.dirs : Under(q, Root)},
    [q \in {x \in DOMAIN st.files : Under(x, Root)} |-> st.files[q]]>>

\* C15: an acquisition that fails at any stage (metadata fetch, body fetch, size
\* limit, copying the PDF or the sidecar into the category directory) leaves the index
\* unchanged and no PDF or sidecar of the failed attempt in the visible tree
C15_FailedAcquisitionLeavesNothing ==
  /\ \A doi \in {Doi1, Doi2}, category \in DownloadCategories :
       \A reply \in Registry(doi), resp \in Mirror, io \in MoveFailures :
         LET r == NewPaperFromDOI(Cur, doi, category, reply, resp, io[1], io[2])
         IN  r.err # "" => Deref(r.st) = Deref(Cur) /\ Visible(r.st) = Visible(Cur)
  /\ \A resp \in Responses, category \in DownloadCategories, io \in 0..4 :
       LET r == NewPaperFromDirectLink(Cur, resp, category, io)
       IN  r.err # "" => Deref(r.st) = Deref(Cur) /\ Visible(r.st) = Visible(Cur)

\* C16: an acquisition whose category is not a key of the index returns an error (it
\* does not panic) and changes neither the index nor the filesystem
C16_UnknownCategoryRefused ==
  \A category \in DownloadCategories \ DOMAIN List :
    /\ \A resp \in Responses, io \in 0..4 :
         LET r == NewPaperFromDirectLink(Cur, resp, category, io)
         IN  /\ r.err \notin {"", "panic"}
             /\ Deref(r.st) = Deref(Cur)
             /\ Disk(r.st) = Disk(Cur)
    /\ \A doi \in {Doi1, Doi2} :
         \A reply \in Registry(doi), resp \in Mirror, io \in MoveFailures :
           LET r == NewPaperFromDOI(Cur, doi, category, reply, resp, io[1], io[2])
           IN  /\ r.err \notin {"", "panic"}
               /\ Deref(r.st) = Deref(Cur)
               /\ Disk(r.st) = Disk(Cur)

\* every answer the network can give to one ProcessAddPaperInput call
AddEnvs(input) ==
  LET u == UrlParse(input)
      isURL == u.ok /\ u.Scheme # <<>> /\ u.Host # <<>>
  IN  UNION {
        UNION {
          LET part == [page |-> page, hub |-> hub, io |-> 0]
              doi == IF u.ok THEN InputDOI(input, part) ELSE <<>>
              tries == IF doi # <<>> /\ page.kind # "pdf" THEN Tries(doi) ELSE {NoTry}
          IN  {[page |-> page, hub |-> hub, io |-> 0, try1 |-> try1, try2 |-> try2] :
                 try1 \in tries, try2 \in tries} :
          hub \in IF isURL THEN HubPages ELSE {[kind |-> "fail", doi |-> <<>>]}} :
        page \in IF isURL THEN Pages ELSE {[kind |-> "fail", doi |-> <<>>]}}

\* C17: when the input is neither an absolute URL nor contains an identifier, or when
\* no strategy yields a document, ProcessAddPaperInput returns an error and the
\* index is unchanged
C17_UnresolvableInputIsAnError ==
  \A input \in InputArgs, category \in DownloadCategories :
    \A env \in AddEnvs(input) :
      LET u == UrlParse(input)
          isURL == u.ok /\ u.Scheme # <<>> /\ u.Host # <<>>
          r == ProcessAddPaperInput(Cur, category, input, env)
      IN  /\ (~isURL /\ getDOIFromBytes(input) = <<>>) =>
               r.err \notin {"", "panic"} /\ Deref(r.st) = Deref(Cur)
          /\ r.err # "" => r.err # "panic" /\ Deref(r.st) = Deref(Cur)

\* a MovePaper call run without another handler beside it is the three parts in turn
MovePaperParts(st, paper, category, io) ==
  LET r1 == MovePaperInsert(st, paper, category, io)
      r2 == MovePaperMeta(r1.st, paper, category, io)
  IN  IF r1.err # "" THEN r1
      ELSE IF r2.err # "" THEN r2
      ELSE MovePaperDelete(r2.st, paper)

\* C18: a mutation excludes every reader: no index listing served while a move is
\* under way observes an intermediate state of it, such as the document present in
\* both the source and the destination category, and none is ended by the runtime
C18_ReaderSeesNoIntermediateState ==
  /\ ~seen.fatal
  /\ Cardinality(seen.listed) <= 1

\* bit i of an address, bit 1 the most significant of its first byte
Bit(ip, i) == (ip[(i - 1) \div 8 + 1] \div 2 ^ (7 - ((i - 1) % 8))) % 2

\* the address lies in the network base/ones: it is of the network's family and its
\* first ones bits are the network's
Inside(ip, base, ones) ==
  LET x == IF To4(ip) # NilIP THEN To4(ip) ELSE ip
  IN  Len(x) = Len(base) /\ \A i \in 1..ones : Bit(x, i) = Bit(base, i)

\* 127.0.0.0/8, 10.0.0.0/8, 172.16.0.0/12, 192.168.0.0/16, 169.254.0.0/16, ::1/128,
\* fe80::/10 and fc00::/7
BlockList ==
  {<<(<<127, 0, 0, 0>>), 8>>, <<(<<10, 0, 0, 0>>), 8>>, <<(<<172, 16, 0, 0>>), 12>>,
   <<(<<192, 168, 0, 0>>), 16>>, <<(<<169, 254, 0, 0>>), 16>>, <<IPv6(0, 0, 1), 128>>,
   <<IPv6(254, 128, 0), 10>>, <<IPv6(252, 0, 0), 7>>}

InBlockList(ip) == \E b \in BlockList : Inside(ip, b[1], b[2])

\* link-local multicast: 224.0.0.0/24, and the IPv6 multicast addresses of scope 2
LinkLocalMulticast(ip) ==
  \/ Inside(ip, <<224, 0, 0, 0>>, 24)
  \/ Inside(ip, IPv6(255, 0, 0), 8) /\ ip[2] % 16 = 2

\* C19: the guard rejects the connection if an address the target resolves to, or
\* the literal target address itself, bracketed or not, lies in the block list; no
\* dial is made to a loopback, private, link-local or unique-local address
C19_NoDialToBlockedAddress ==
  (probe.kind = "dial" /\ probe.out # "none") =>
    LET literal == ParseIP(SplitHost(probe.addr))
        resolved == IF literal # NilIP THEN {literal}
                    ELSE {ParseIP(probe.answer[n]) : n \in DOMAIN probe.answer}
    IN  /\ (\E ip \in resolved : InBlockList(ip)) => probe.out = "blocked"
        /\ probe.out = "dialled" => \A ip \in probe.to : ~InBlockList(ip)

\* C20 as stated: the classifier returns blocked for exactly the addresses inside
\* the eight networks of the block list
C20_BlockedExactlyInBlockList ==
  (probe.kind = "ip" /\ probe.out # "none") =>
    (probe.out = "blocked" <=> InBlockList(probe.ip))

\* C20: the classifier returns blocked for 127.0.0.1, 10.1.2.3, 169.254.1.1, ::1 and
\* fe80::1, allowed for 93.184.216.34, and in general blocked for exactly the
\* addresses inside the eight networks of the block list and the link-local
\* multicast addresses
C20_BlockedInBlockListOrLinkLocalMulticast ==
  (probe.kind = "ip" /\ probe.out # "none") =>
    /\ probe.out = "blocked" <=> (InBlockList(probe.ip) \/ LinkLocalMulticast(probe.ip))
    /\ probe.ip \in {IPv4(127, 0, 0, 1), IPv4(10, 1, 2, 3), IPv4(169, 254, 1, 1),
                      IPv6(0, 0, 1), IPv6(254, 128, 1)} => probe.out = "blocked"
    /\ probe.ip = IPv4(93, 184, 216, 34) => probe.out = "allowed"

\* a link-local multicast address outside the eight networks has been classified
C20_Witness ==
  /\ probe.kind = "ip"
  /\ probe.out = "blocked"
  /\ LinkLocalMulticast(probe.ip)
  /\ ~InBlockList(probe.ip)

\* the errors of a dial that fails in the network
NetworkFailures == {"no such host", "connection refused"}

\* C21: a dial rejected by the guard yields an error the requester cannot tell apart
\* from an ordinary network failure: the error of a blocked target is one a target
\* that fails to connect gives
C21_RejectionLooksLikeNetworkFailure ==
  (probe.kind = "dial" /\ probe.out = "blocked") => probe.err \in NetworkFailures

\* sub occurs in s
HasSubstring(s, sub) ==
  \E i \in 1..(Len(s) - Len(sub) + 1) : SubSeq(s, i, i + Len(sub) - 1) = sub

\* a name with neither "/" nor ".."
SafeName(name) == ~HasSubstring(name, Slash) /\ ~HasSubstring(name, DotDot)

\* the responses of the model and one whose Content-Disposition filename climbs out
\* of the category
NamedResponses ==
  Responses \cup {[filename |-> DotDot \o Slash \o Y \o PdfExt,
                   path |-> <<"/", "p", "/">> \o Y \o PdfExt, body |-> "pdf8"]}

\* the documents the call that returned r added to the category
Added(r, category) ==
  {r.st.heap[r.st.List[category][k]] :
     k \in DOMAIN r.st.List[category] \ DOMAIN List[category]}

\* C22: every name that reaches the commit step, built from the response, from the
\* Metadata or from the raw identifier, contains neither "/" nor "..", and the
\* committed PaperPath and MetaPath are files directly inside root/<category>
C22_CommittedNamesAreSafe ==
  \A category \in DownloadCategories \cap DOMAIN List :
    /\ \A resp \in NamedResponses :
         LET r == NewPaperFromDirectLink(Cur, resp, category, 0)
         IN  r.err = "" =>
               \A p \in Added(r, category) :
                 SafeName(p.PaperName) /\ Dir(p.PaperPath) = Join(Root, category)
    /\ \A doi \in {Doi1, Doi2} :
         \A reply \in Registry(doi) \cap XmlDocs :
           LET r == NewPaperFromDOI(Cur, doi, category, reply, "pdf9", 0, 0)
           IN  r.err = "" =>
                 \A p \in Added(r, category) :
                   /\ SafeName(p.PaperName)
                   /\ Dir(p.PaperPath) = Join(Root, category)
                   /\ Dir(p.MetaPath) = Join(Root, category)


\* the entry under key k of category c has the shape of a walked entry: the key
\* is the category joined to <PaperName>.pdf, PaperPath is that key below the
\* root, MetaPath is empty or the sidecar beside it
Shaped(st, c, k) ==
  LET p == st.heap[st.List[c][k]]
  IN  /\ k = Join(c, p.PaperName \o PdfExt)
      /\ p.PaperPath = Join(Root, Join(c, p.PaperName \o PdfExt))
      /\ p.MetaPath \in {<<>>, Join(Root, Join(c, p.PaperName \o MetaExt))}

\* C23: in every reachable state every index entry, under category c and key k,
\* has k = c/<PaperName>.pdf, PaperPath = root/c/<PaperName>.pdf and MetaPath
\* empty or root/c/<PaperName>.meta.xml
C23_EntriesAreShaped ==
  \A c \in DOMAIN List : \A k \in DOMAIN List[c] : Shaped(Cur, c, k)


\* C24: in every reachable state no category key of the index contains "..",
\* starts with a separator or ends with a separator
C24_CategoryKeysAreClean ==
  \A c \in DOMAIN List :
    ~HasSubstring(c, DotDot) /\ ~HasPrefix(c, Slash) /\ ~HasSuffix(c, Slash)


\* the index is the one of the current state
SameIndex(r) == r.st.List = List /\ \A n \in DOMAIN heap : r.st.heap[n] = heap[n]

\* C25: a response body of more than MAX_SIZE bytes makes the acquisition return
\* an error and commits nothing, be it a document body (of a direct link or of the
\* mirror) or the registry's metadata
C25_DownloadsAreBounded ==
  \A category \in DownloadCategories \cap DOMAIN List :
    /\ \A resp \in NamedResponses :
         LET r == NewPaperFromDirectLink(Cur, [resp EXCEPT !.body = "big"], category, 0)
         IN  r.err # "" /\ SameIndex(r)
    /\ \A doi \in {Doi1, Doi2} : \A reply \in Registry(doi) \cap XmlDocs :
         LET r == NewPaperFromDOI(Cur, doi, category, reply, "big", 0, 0)
         IN  r.err # "" /\ SameIndex(r)
    /\ LET r == NewPaperFromDOI(Cur, Doi1, category, XmlLarge, "pdf9", 0, 0)
       IN  r.err # "" /\ SameIndex(r)

\* the document bodies alone
DocumentBodiesAreBounded ==
  \A category \in DownloadCategories \cap DOMAIN List :
    /\ \A resp \in NamedResponses :
         LET r == NewPaperFromDirectLink(Cur, [resp EXCEPT !.body = "big"], category, 0)
         IN  r.err # "" /\ SameIndex(r)
    /\ \A doi \in {Doi1, Doi2} : \A reply \in Registry(doi) \cap XmlDocs :
         LET r == NewPaperFromDOI(Cur, doi, category, reply, "big", 0, 0)
         IN  r.err # "" /\ SameIndex(r)


\* the name a response proposes: the filename of Content-Disposition when there is
\* one, else what follows the last "/" of the final URL's path; without ".pdf"
Proposed(resp) ==
  TrimSuffix(IF resp.filename # <<>> THEN resp.filename
             ELSE SubSeq(resp.path, LastIndex(resp.path, "/") + 1, Len(resp.path)),
             PdfExt)

\* name is the proposed name or the proposed name with a suffix that disambiguates it
Disambiguates(name, proposed) == name = proposed \/ HasPrefix(name, proposed \o <<"-">>)

\* <category>/<name>.pdf
Keyed(category, name) == category \o Slash \o name \o PdfExt

\* the network's answers to a direct link: the page is a PDF, whatever the mirror
\* and the registry would answer
DirectEnvs(resp) ==
  {[page |-> [kind |-> "pdf", doi |-> <<>>, resp |-> resp], hub |-> hub, io |-> 0,
    try1 |-> try, try2 |-> try] :
     hub \in HubPages, try \in Tries(Doi1)}

\* the sidecars on disk
Sidecars(st) == {f \in DOMAIN st.files : HasSuffix(f, MetaExt)}

\* r commits one document named name in category: one key more, the PDF on disk
\* with the body of the response, no sidecar
CommitsOne(r, category, name, body) ==
  /\ DOMAIN r.st.List = DOMAIN List
  /\ \A c \in DOMAIN List \ {category} : r.st.List[c] = List[c]
  /\ Keyed(category, name) \notin DOMAIN List[category]
  /\ DOMAIN r.st.List[category] = DOMAIN List[category] \cup {Keyed(category, name)}
  /\ \A k \in DOMAIN List[category] : r.st.List[category][k] = List[category][k]
  /\ r.st.heap[r.st.List[category][Keyed(category, name)]] =
       [ZeroPaper EXCEPT !.PaperName = name,
                         !.PaperPath = Root \o Slash \o Keyed(category, name)]
  /\ IsFile(r.st, Root \o Slash \o Keyed(category, name))
  /\ r.st.files[Root \o Slash \o Keyed(category, name)] = body
  /\ Sidecars(r.st) = Sidecars(Cur)

\* C26: a direct-link acquisition that succeeds commits exactly one document in
\* the given category, named from the response (the Content-Disposition filename,
\* else the last segment of the final URL's path; x1.pdf gives <category>/x1.pdf
\* when that key is free), creates no sidecar and resolves no identifier
C26_DirectLinkCommitsOne ==
  \A category \in DownloadCategories \cap DOMAIN List :
    \A resp \in NamedResponses : \A env \in DirectEnvs(resp) :
      LET r == ProcessAddPaperInput(Cur, category, InUrl, env)
      IN  r.err = "" =>
            /\ \E p \in Added(r, category) :
                 /\ Disambiguates(p.PaperName, Proposed(resp))
                 /\ CommitsOne(r, category, p.PaperName, resp.body)
            /\ Keyed(category, Proposed(resp)) \notin DOMAIN List[category]
                 => CommitsOne(r, category, Proposed(resp), resp.body)


\* the registry's records that name a first author and a year
AuthorYearRecords ==
  {x \in XmlDocs : FirstAuthors(XmlDecode(x)) # <<>> /\ XmlDecode(x).PubYear # <<>>}

\* the first author's last name in lower case, followed by the year
AuthorYear(meta) == ToLower(FirstAuthors(meta)[1].LastName) \o meta.PubYear

\* r commits the document of the registry's record reply under name in category:
\* one key more, whose entry carries the record and the two paths, the PDF and the
\* sidecar on disk
CommitsRecord(r, category, name, reply) ==
  /\ DOMAIN r.st.List = DOMAIN List
  /\ \A c \in DOMAIN List \ {category} : r.st.List[c] = List[c]
  /\ Keyed(category, name) \notin DOMAIN List[category]
  /\ DOMAIN r.st.List[category] = DOMAIN List[category] \cup {Keyed(category, name)}
  /\ \A k \in DOMAIN List[category] : r.st.List[category][k] = List[category][k]
  /\ r.st.heap[r.st.List[category][Keyed(category, name)]] =
       [Meta |-> XmlDecode(reply),
        MetaPath |-> Root \o Slash \o category \o Slash \o name \o MetaExt,
        PaperName |-> name,
        PaperPath |-> Root \o Slash \o Keyed(category, name)]
  /\ IsFile(r.st, Root \o Slash \o Keyed(category, name))
  /\ r.st.files[Root \o Slash \o Keyed(category, name)] = "pdf9"
  /\ IsFile(r.st, Root \o Slash \o category \o Slash \o name \o MetaExt)
  /\ r.st.files[Root \o Slash \o category \o Slash \o name \o MetaExt] = reply

\* C27: an identifier acquisition that succeeds creates root/<category>/<name>.pdf
\* and root/<category>/<name>.meta.xml and one index entry <category>/<name>.pdf
\* whose MetaPath is that sidecar and whose Metadata is the registry's record; in
\* an empty category a record with first author X and year 1 gives <category>/x1.pdf
\* (in every state in which a behaviour makes a call)
C27_IdentifierAcquisitionCommits ==
  Calling =>
    \A category \in DownloadCategories \cap DOMAIN List :
      \A doi \in {Doi1, Doi2} : \A reply \in Registry(doi) \cap XmlDocs :
        LET r == NewPaperFromDOI(Cur, doi, category, reply, "pdf9", 0, 0)
        IN  r.err = "" =>
              /\ \E p \in Added(r, category) :
                   CommitsRecord(r, category, p.PaperName, reply)
              /\ (reply \in AuthorYearRecords /\ List[category] = EmptyMap)
                   => CommitsRecord(r, category, AuthorYear(XmlDecode(reply)), reply)

\* an empty category in which the acquisition of a record with first author X and
\* year 1 succeeds and is committed as x1
C27_Witness ==
  \E category \in DownloadCategories \cap DOMAIN List :
    LET r == NewPaperFromDOI(Cur, Doi1, category, "xml1", "pdf9", 0, 0)
    IN  /\ Calling
        /\ List[category] = EmptyMap
        /\ r.err = ""
        /\ HasKey(r.st, category, Keyed(category, X1))


\* how many of the calls q went to target
Count(q, target) == Cardinality({i \in DOMAIN q : q[i] = target})

\* the input is a URL
IsURL(input) ==
  UrlParse(input).ok /\ UrlParse(input).Scheme # <<>> /\ UrlParse(input).Host # <<>>

\* C28: within one request the mirror is asked for the document body at most twice,
\* a second time only when the first fetch failed, and no other network call (the
\* page, the mirror's page for the input, the registry) is made more than once
C28_OnlyTheBodyFetchIsRetried ==
  \A input \in InputArgs, category \in DownloadCategories \cap DOMAIN List :
    \A env \in AddEnvs(input) :
      /\ Count(ProcessAddPaperInputRequests(Cur, category, input, env, IsURL(input)),
               "mirror") <= 2
      /\ Count(ProcessAddPaperInputRequests(Cur, category, input, env, IsURL(input)),
               "mirror") = 2 => env.try1.resp = "fail"
      /\ \A other \in {"page", "hub", "registry"} :
           Count(ProcessAddPaperInputRequests(Cur, category, input, env, IsURL(input)),
                 other) <= 1


\* the configured credentials, and what r.BasicAuth() returns for the requests: no
\* Authorization header, or a user name and a password
AdminUser == "u"

AdminPass == "p"

NoAuth == [ok |-> FALSE, username |-> "", password |-> ""]

Credentials ==
  {NoAuth, [ok |-> TRUE, username |-> "", password |-> ""]}
  \cup {[ok |-> TRUE, username |-> x, password |-> y] : x \in {"u", "v"}, y \in {"p", "q"}}

\* the request's credentials are the configured ones
Matching(auth) == auth.ok /\ auth.username = AdminUser /\ auth.password = AdminPass

\* the forms sent to /admin/edit/: a delete of a paper or of a category, a move, a
\* rename
EditForm(action, paper, category, dest, rc, rt) ==
  [action |-> action, paper |-> paper, category |-> category, dest |-> dest,
   rc |-> rc, rt |-> rt]

EditForms ==
  {EditForm("delete", <<paper>>, <<>>, <<>>, <<>>, <<>>) : paper \in AllKeys}
  \cup {EditForm("delete", <<>>, <<category>>, <<>>, <<>>, <<>>) : category \in DOMAIN List}
  \cup {EditForm("move", <<paper>>, <<>>, category, <<>>, <<>>) :
          paper \in AllKeys, category \in DOMAIN List}
  \cup {EditForm("", <<>>, <<>>, <<>>, rc, rt) : rc \in DOMAIN List, rt \in {D, DE}}

\* the forms sent to /admin/add/: a download, a new category
AddForms ==
  {[p |-> input, c |-> category, nc |-> <<>>] :
     input \in {InUrl, Doi1}, category \in DownloadCategoryArgs}
  \cup {[p |-> <<>>, c |-> <<>>, nc |-> nc] : nc \in {D, DE}}

\* the network answers every call: the URL with a PDF, the registry with the record,
\* the mirror with the document
Answering ==
  [page |-> [kind |-> "pdf", doi |-> <<>>,
             resp |-> [filename |-> <<>>, path |-> <<"/", "p", "/">> \o Y \o PdfExt,
                       body |-> "pdf8"]],
   hub |-> [kind |-> "fail", doi |-> <<>>], io |-> 0,
   try1 |-> [reply |-> "xml1", resp |-> "pdf9", io |-> <<0, 0>>], try2 |-> NoTry]

\* C29: with an admin user and a password configured, a request to /admin/edit/ or
\* /admin/add/ whose basic-auth credentials are missing or do not match them leaves
\* the index and the filesystem as they were, whatever its form asks for (in every
\* state in which a behaviour makes a call)
C29_UnauthenticatedChangesNothing ==
  Calling =>
    /\ \A form \in EditForms : \A w \in Winners(Sanitize(form.rc), Sanitize(form.rt)) :
         \A auth \in {a \in Credentials : ~Matching(a)} :
           EditHandler(Cur, AdminUser, AdminPass, [auth |-> auth, form |-> form], w).st = Cur
    /\ \A form \in AddForms : \A auth \in {a \in Credentials : ~Matching(a)} :
         AddHandler(Cur, AdminUser, AdminPass, [auth |-> auth, form |-> form],
                    Answering).st = Cur

\* a delete and a download that change the catalog when sent with the configured
\* credentials and leave it alone when sent with another password
C29_Witness ==
  /\ Calling
  /\ \E form \in EditForms :
       /\ EditHandler(Cur, AdminUser, AdminPass,
                      [auth |-> [ok |-> TRUE, username |-> "u", password |-> "p"],
                       form |-> form], EmptyMap).st # Cur
       /\ form.action = "delete"
       /\ EditHandler(Cur, AdminUser, AdminPass,
                      [auth |-> [ok |-> TRUE, username |-> "u", password |-> "q"],
                       form |-> form], EmptyMap).st = Cur
  /\ \E form \in AddForms :
       /\ AddHandler(Cur, AdminUser, AdminPass,
                     [auth |-> [ok |-> TRUE, username |-> "u", password |-> "p"],
                      form |-> form], Answering).st # Cur
       /\ form.p # <<>>
       /\ AddHandler(Cur, AdminUser, AdminPass,
                     [auth |-> [ok |-> TRUE, username |-> "u", password |-> "q"],
                      form |-> form], Answering).st = Cur


\* the path p, which lies below the root, relative to the root
Relative(p) == SubSeq(p, Len(Root) + 2, Len(p))

\* the regular files with the .pdf extension under the root
PdfFiles == {f \in DOMAIN files : Under(f, Root) /\ HasSuffix(f, PdfExt)}

\* the sidecar path of the PDF f
SidecarOf(f) == TrimSuffix(f, PdfExt) \o MetaExt

\* every sidecar of a PDF on disk can be decoded
Decodable == \A f \in PdfFiles : IsFile(Cur, SidecarOf(f)) => files[SidecarOf(f)] \in XmlDocs

\* the walk w indexed the PDF f: an entry of the index has PaperPath f, with the
\* sidecar's record when the sidecar is there
Indexed(w, f) ==
  \E c \in DOMAIN w.st.List : \E k \in DOMAIN w.st.List[c] :
    /\ w.st.heap[w.st.List[c][k]].PaperPath = f
    /\ IF IsFile(Cur, SidecarOf(f))
         THEN /\ w.st.heap[w.st.List[c][k]].MetaPath = SidecarOf(f)
              /\ w.st.heap[w.st.List[c][k]].Meta = XmlDecode(files[SidecarOf(f)])
         ELSE /\ w.st.heap[w.st.List[c][k]].MetaPath = <<>>
              /\ w.st.heap[w.st.List[c][k]].Meta = EmptyMeta
    /\ Dir(f) # Root => c = Relative(Dir(f)) /\ k = Relative(f)

\* C30: PopulatePapers indexes every regular .pdf file under the root, root/<c>/<n>.pdf
\* as key <c>/<n>.pdf of category <c> with PaperPath that path and the record of its
\* sidecar when there is one; every directory below the root is a category; a
\* sidecar that cannot be decoded makes it return an error
C30_PopulateIndexesEveryPdf ==
  /\ Decodable =>
       /\ PopulatePapers(Cur).err = ""
       /\ \A f \in PdfFiles : Indexed(PopulatePapers(Cur), f)
       /\ \A d \in dirs : (Under(d, Root) /\ d # Root)
                            => Relative(d) \in DOMAIN PopulatePapers(Cur).st.List
  /\ \A f \in PdfFiles :
       PopulatePapers([Cur EXCEPT !.files = MapPut(@, SidecarOf(f), "bad")]).err # ""

\* the same for the files that lie in a directory below the root
PopulateIndexesCategoryFiles ==
  /\ Decodable =>
       /\ PopulatePapers(Cur).err = ""
       /\ \A f \in {g \in PdfFiles : Dir(g) # Root} : Indexed(PopulatePapers(Cur), f)
       /\ \A d \in dirs : (Under(d, Root) /\ d # Root)
                            => Relative(d) \in DOMAIN PopulatePapers(Cur).st.List
  /\ \A f \in {g \in PdfFiles : Dir(g) # Root} :
       PopulatePapers([Cur EXCEPT !.files = MapPut(@, SidecarOf(f), "bad")]).err # ""


\* nothing is left on disk at path p or below it
Gone(st, p) == \A q \in st.dirs \cup DOMAIN st.files : ~Under(q, p)

\* C31: DeleteCategory and RenameCategory do the directory operation before they
\* touch the index: when os.RemoveAll or os.Rename fails the call returns the error,
\* the index is what it was and the category is still a key; when the index has
\* changed the subtree is gone from disk, or stands under the new name (in every
\* state in which a behaviour makes a call)
C31_DiskBeforeIndex ==
  Calling =>
    /\ \A c \in DOMAIN List, io \in 0..1 :
         \A r \in {DeleteCategory(Cur, c, io)} :
           /\ r.err # "" => Deref(r.st) = Deref(Cur)
           /\ Deref(r.st) # Deref(Cur) => Gone(r.st, Join(Root, c))
           /\ io = 1 => r.err # ""
    /\ \A c \in DOMAIN List, d \in {D, DE}, io \in 0..1 : \A w \in Winners(c, d) :
         \A r \in {RenameCategory(Cur, c, d, io, w)} :
           /\ r.err # "" => Deref(r.st) = Deref(Cur)
           /\ Deref(r.st) # Deref(Cur)
                => Gone(r.st, Join(Root, c)) /\ IsDir(r.st, Join(Root, d))
           /\ io = 1 => r.err # ""

\* a category with documents whose removal fails, and whose rename fails although
\* the directory could be renamed
C31_Witness ==
  \E c \in DOMAIN List :
    /\ Calling
    /\ DOMAIN List[c] # {}
    /\ IsDir(Cur, Join(Root, c))
    /\ DeleteCategory(Cur, c, 1).err = "io"
    /\ c \in DOMAIN DeleteCategory(Cur, c, 1).st.List
    /\ Deref(DeleteCategory(Cur, c, 0).st) # Deref(Cur)
    /\ D \notin DOMAIN List
    /\ \E w \in Winners(c, D) :
         /\ RenameCategory(Cur, c, D, 0, w).err = ""
         /\ RenameCategory(Cur, c, D, 1, w).err = "io"
         /\ c \in DOMAIN RenameCategory(Cur, c, D, 1, w).st.List


\* the files in the directory of the temporary files
Temporaries(st) == {f \in DOMAIN st.files : Under(f, TmpDir)}

\* C32: an acquisition attempt leaves no temporary file behind, whether it succeeds
\* or fails, also when the response body cannot be written to the temporary file
\* or is larger than MAX_SIZE
C32_TemporariesAreRemoved ==
  /\ \A resp \in Responses, category \in DownloadCategories, io \in 0..4 :
       Temporaries(NewPaperFromDirectLink(Cur, resp, category, io).st) = Temporaries(Cur)
  /\ \A doi \in {Doi1, Doi2}, category \in DownloadCategories :
       \A reply \in Registry(doi), resp \in Mirror, io \in MoveFailures :
         Temporaries(NewPaperFromDOI(Cur, doi, category, reply, resp, io[1], io[2]).st)
           = Temporaries(Cur)

\* the same for the attempts whose body is not larger than MAX_SIZE
SmallBodiesLeaveNoTemporaries ==
  /\ \A resp \in {x \in Responses : x.body # "big"}, category \in DownloadCategories,
        io \in 0..4 :
       Temporaries(NewPaperFromDirectLink(Cur, resp, category, io).st) = Temporaries(Cur)
  /\ \A doi \in {Doi1, Doi2}, category \in DownloadCategories :
       \A reply \in Registry(doi), resp \in Mirror \ {"big"}, io \in MoveFailures :
         Temporaries(NewPaperFromDOI(Cur, doi, category, reply, resp, io[1], io[2]).st)
           = Temporaries(Cur)


\* the destinations renameFile is asked for with the file src: the file itself, and
\* its name in the directory of a category (where a file of that name may be), in the
\* temporary directory and in a directory that does not exist
Destinations(src) ==
  {src} \cup {Join(d, Base(src)) : d \in {Join(Root, A), Join(Root, B), TmpDir,
                                         Join(Root, DE)}}

\* the file at path holds the bytes data
Holds(st, path, data) == IsFile(st, path) /\ st.files[path] = data

\* C33: renameFile writes the destination completely before it removes the source:
\* when the copy fails the source is as it was, when the removal fails both the
\* source and the complete destination are there, on success the destination holds
\* the source's bytes, and after no call are both the source and a complete
\* destination missing (in every state in which a behaviour makes a call)
C33_CopyBeforeRemove ==
  Calling =>
    \A src \in DOMAIN files : \A dst \in Destinations(src), io \in 0..4 :
      \A r \in {renameFile(Cur, src, dst, io)} :
        /\ Holds(r.st, src, files[src]) \/ Holds(r.st, dst, files[src])
        /\ (io \in 1..3 /\ src # dst)
             => r.err # "" /\ Holds(r.st, src, files[src])
        /\ (io = 4 /\ src # dst /\ copyFile(Cur, src, dst, 0).err = "")
             => /\ r.err # ""
                /\ Holds(r.st, src, files[src])
                /\ Holds(r.st, dst, files[src])
        /\ (r.err = "" /\ src # dst)
             => Holds(r.st, dst, files[src]) /\ ~IsFile(r.st, src)

\* a file that is moved to a new place, that stays alone when the copy breaks off,
\* and that stays beside its copy when the removal fails
C33_Witness ==
  \E src \in DOMAIN files : \E dst \in Destinations(src) \ DOMAIN files :
    /\ Calling
    /\ renameFile(Cur, src, dst, 0).err = ""
    /\ ~IsFile(renameFile(Cur, src, dst, 0).st, src)
    /\ Holds(renameFile(Cur, src, dst, 2).st, dst, "partial")
    /\ Holds(renameFile(Cur, src, dst, 2).st, src, files[src])
    /\ Holds(renameFile(Cur, src, dst, 4).st, dst, files[src])
    /\ Holds(renameFile(Cur, src, dst, 4).st, src, files[src])


\* the registry's well-formed records
Records == XmlDocs \cup XmlSparse

\* the contributors of meta whose sequence is "first"
Firsts(meta) == {i \in DOMAIN meta.Contributors : meta.Contributors[i].Sequence = "first"}

\* meta names no first author, or one without a last name, or no year
Lacking(meta) ==
  \/ Firsts(meta) = {}
  \/ \E i \in Firsts(meta) : meta.Contributors[i].LastName = <<>>
  \/ meta.PubYear = <<>>

\* the identifier as a name: its characters without the "/"
IdentifierName(doi) == SelectSeq(doi, LAMBDA ch : ch # "/")

\* C34: the candidate from Metadata is the lower-cased last name of the contributor
\* whose sequence is "first" followed by the year; there is none when no contributor
\* has that sequence, when the last name is empty or when the year is empty, and the
\* acquisition then names the document after the identifier (for records whose
\* fields hold no "/"; in every state in which a behaviour makes a call)
C34_CandidateFromMetadata ==
  Calling =>
    /\ \A x \in Records :
         /\ Lacking(XmlDecode(x)) <=> getPaperFileNameFromMeta(XmlDecode(x)) = <<>>
         /\ ~Lacking(XmlDecode(x)) =>
              \A i \in Firsts(XmlDecode(x)) :
                getPaperFileNameFromMeta(XmlDecode(x)) =
                  ToLower(XmlDecode(x).Contributors[i].LastName) \o XmlDecode(x).PubYear
    /\ \A category \in DownloadCategoryArgs \cap DOMAIN List,
          x \in {"xml1", "xml3"} \cup XmlSparse :
         \A p \in Added(NewPaperFromDOI(Cur, XmlDecode(x).DOI, category, x, "pdf9", 0, 0),
                        category) :
           /\ Lacking(XmlDecode(x)) =>
                Disambiguates(p.PaperName, IdentifierName(XmlDecode(x).DOI))
           /\ ~Lacking(XmlDecode(x)) =>
                \A i \in Firsts(XmlDecode(x)) :
                  Disambiguates(p.PaperName,
                                ToLower(XmlDecode(x).Contributors[i].LastName)
                                  \o XmlDecode(x).PubYear)

\* a first author without a last name and a first author without a year, each
\* committed under the identifier, beside a record committed under author and year
C34_Witness ==
  \E category \in DownloadCategories \cap DOMAIN List :
    /\ Calling
    /\ NewPaperFromDOI(Cur, Doi1, category, "xml5", "pdf9", 0, 0).err = ""
    /\ HasKey(NewPaperFromDOI(Cur, Doi1, category, "xml5", "pdf9", 0, 0).st, category,
              Keyed(category, IdentifierName(Doi1)))
    /\ NewPaperFromDOI(Cur, Doi2, category, "xml6", "pdf9", 0, 0).err = ""
    /\ HasKey(NewPaperFromDOI(Cur, Doi2, category, "xml6", "pdf9", 0, 0).st, category,
              Keyed(category, IdentifierName(Doi2)))
    /\ NewPaperFromDOI(Cur, Doi2, category, "xml2", "pdf9", 0, 0).err = ""
    /\ HasKey(NewPaperFromDOI(Cur, Doi2, category, "xml2", "pdf9", 0, 0).st, category,
              Keyed(category, X1))


\* the entry the key p stands for
EntryOf(p) == heap[List[Dir(p)][p]]

\* C35: after a successful DeletePaper(p) the document's PDF and its sidecar, when
\* it had one, are no longer on disk, the key p is absent from its category, the
\* category is still a key, and every other key of every category stands for the
\* entry it stood for (in every state in which a behaviour makes a call)
C35_DeletePaperFrame ==
  Calling =>
    \A p \in AllKeys : \A r \in {DeletePaper(Cur, p, 0)} :
      (Dir(p) \in DOMAIN List /\ p \in DOMAIN List[Dir(p)] /\ r.err = "")
        => /\ ~IsFile(r.st, EntryOf(p).PaperPath)
           /\ ~IsFile(r.st, Join(Root, p))
           /\ EntryOf(p).MetaPath # <<>> => ~IsFile(r.st, EntryOf(p).MetaPath)
           /\ DOMAIN r.st.List = DOMAIN List
           /\ DOMAIN r.st.List[Dir(p)] = DOMAIN List[Dir(p)] \ {p}
           /\ \A c \in DOMAIN List \ {Dir(p)} : Deref(r.st)[c] = Deref(Cur)[c]
           /\ \A k \in DOMAIN List[Dir(p)] \ {p} :
                Deref(r.st)[Dir(p)][k] = Deref(Cur)[Dir(p)][k]

\* the only document of a category, with its sidecar on disk, is deleted while
\* another category holds documents
C35_Witness ==
  \E p \in AllKeys :
    /\ Calling
    /\ Dir(p) \in DOMAIN List
    /\ DOMAIN List[Dir(p)] = {p}
    /\ EntryOf(p).MetaPath # <<>>
    /\ IsFile(Cur, EntryOf(p).MetaPath)
    /\ DeletePaper(Cur, p, 0).err = ""
    /\ DeletePaper(Cur, p, 0).st.List[Dir(p)] = EmptyMap
    /\ \E c \in DOMAIN List \ {Dir(p)} : List[c] # EmptyMap


\* r has made the category n and every ancestor it lacked keys with no documents,
\* the directories are there, and the categories there were stand as they stood
AddsWithAncestors(r, n) ==
  /\ DOMAIN r.st.List = DOMAIN List \cup Ancestors(n)
  /\ \A c \in Ancestors(n) \ DOMAIN List : r.st.List[c] = EmptyMap
  /\ \A c \in Ancestors(n) : IsDir(r.st, Join(Root, c))
  /\ \A c \in DOMAIN List : Deref(r.st)[c] = Deref(Cur)[c]

\* C36: adding a category that is not a key makes it and every missing ancestor
\* keys with empty mappings, creates the directories, leaves the categories there
\* were as they stood, and reports success, also when an ancestor was a key already
C36_AddCategoryReportsSuccess ==
  \A nc \in NewCategoryArgs :
    Sanitize(nc) \notin DOMAIN List
      => /\ AddsWithAncestors(AddCategory(Cur, nc, 0), Sanitize(nc))
         /\ AddCategory(Cur, nc, 0).err = ""

\* what holds of the loop: the new keys and directories are made in every case, and
\* success is reported exactly when no ancestor was a key
AddCategoryReportsExistingAncestor ==
  \A nc \in NewCategoryArgs :
    Sanitize(nc) \notin DOMAIN List
      => /\ AddsWithAncestors(AddCategory(Cur, nc, 0), Sanitize(nc))
         /\ AddCategory(Cur, nc, 0).err = ""
              <=> Ancestors(Sanitize(nc)) \cap DOMAIN List = {}
         /\ AddCategory(Cur, nc, 0).err \in {"", "exists"}


\* the name NewPaperFromDOI proposes for the record reply
NameOf(reply) ==
  IF getPaperFileNameFromMeta(XmlDecode(reply)) = <<>>
    THEN Remove(XmlDecode(reply).DOI, Slash)
    ELSE getPaperFileNameFromMeta(XmlDecode(reply))

\* two calls of NewPaperFromDOI that overlap (the handlers run in goroutines of
\* their own and the catalog has no lock): the second has read the index, for
\* getUniqueName and for the comparison of identifiers, before the first assigns its
\* entry, and fetches and moves its files after the first has returned
OverlappingSecond(first, category, reply) ==
  NewPaperFromDOICheck(Cur, getMetaFromDOI(first.st, reply).st,
                       TempName(first.st, <<".", "x", "m", "l">>), XmlDecode(reply),
                       category, NameOf(reply), getUniqueName(Cur, category, NameOf(reply)),
                       "pdf9", 0, 0)

\* the second call begins when the first has returned
FollowingSecond(first, category, reply) ==
  NewPaperFromDOI(first.st, XmlDecode(reply).DOI, category, reply, "pdf9", 0, 0)

\* both calls report success, and the category has two keys more, the sidecar of
\* the first document still holding the first record
BothCommitted(first, second, category, reply1) ==
  (first.err = "" /\ second.err = "")
    => /\ Cardinality(DOMAIN second.st.List[category])
            = Cardinality(DOMAIN List[category]) + 2
       /\ \A p \in Added(first, category) :
            /\ Holds(second.st, p.MetaPath, reply1)
            /\ \E k \in DOMAIN second.st.List[category] :
                 second.st.heap[second.st.List[category][k]] = p

\* C37: two acquisitions that run at the same time in one category with the same
\* name candidate never commit under the same key or the same path: when both
\* report success each document has an index entry and files of its own
C37_OverlappingAcquisitionsKeepApart ==
  \A category \in DownloadCategories \cap DOMAIN List :
    \A reply1 \in XmlDocs, reply2 \in XmlDocs :
      NameOf(reply1) = NameOf(reply2)
        => BothCommitted(
             NewPaperFromDOI(Cur, XmlDecode(reply1).DOI, category, reply1, "pdf9", 0, 0),
             OverlappingSecond(
               NewPaperFromDOI(Cur, XmlDecode(reply1).DOI, category, reply1, "pdf9", 0, 0),
               category, reply2),
             category, reply1)

\* what holds of two acquisitions of which the second begins after the first has
\* returned: they never commit under the same key or path
FollowingAcquisitionsKeepApart ==
  \A category \in DownloadCategories \cap DOMAIN List :
    \A reply1 \in XmlDocs, reply2 \in XmlDocs :
      NameOf(reply1) = NameOf(reply2)
        => BothCommitted(
             NewPaperFromDOI(Cur, XmlDecode(reply1).DOI, category, reply1, "pdf9", 0, 0),
             FollowingSecond(
               NewPaperFromDOI(Cur, XmlDecode(reply1).DOI, category, reply1, "pdf9", 0, 0),
               category, reply2),
             category, reply1)


\* C38: DeleteCategory(C) changes only C and the categories below it: every category
\* whose key is neither C nor begins with C/, also one whose name merely begins with
\* the characters of C, keeps its key, its documents and their path fields (of every
\* call a behaviour makes, failing ones included)
C38_DeleteCategoryFrame ==
  Calling =>
    \A c \in DOMAIN List, io \in 0..1 : \A r \in {Deref(DeleteCategory(Cur, c, io).st)} :
      \A other \in DOMAIN List :
        (other # c /\ ~HasPrefix(other, c \o Slash))
          => other \in DOMAIN r /\ r[other] = Deref(Cur)[other]

\* a category is deleted beside which stands another whose name begins with the
\* same characters and which holds a document
C38_Witness ==
  \E c \in DOMAIN List, other \in DOMAIN List :
    /\ Calling
    /\ other # c
    /\ HasPrefix(other, c)
    /\ ~HasPrefix(other, c \o Slash)
    /\ List[other] # EmptyMap
    /\ DeleteCategory(Cur, c, 0).err = ""
    /\ c \notin DOMAIN DeleteCategory(Cur, c, 0).st.List
    /\ Deref(DeleteCategory(Cur, c, 0).st)[other] = Deref(Cur)[other]


\* the result of the k-th item when the first k items are processed one after the
\* other from st, whatever their results
RECURSIVE AfterPapers(_, _, _, _)
AfterPapers(st, paper, io, k) ==
  IF k = 0 THEN Ok(st)
  ELSE DeletePaper(AfterPapers(st, paper, io, k - 1).st, paper[k], io[k])

RECURSIVE AfterCategories(_, _, _, _)
AfterCategories(st, category, io, k) ==
  IF k = 0 THEN Ok(st)
  ELSE DeleteCategory(AfterCategories(st, category, io, k - 1).st, category[k], io[k])

RECURSIVE AfterMoves(_, _, _, _, _)
AfterMoves(st, paper, dest, io, k) ==
  IF k = 0 THEN Ok(st)
  ELSE MovePaper(AfterMoves(st, paper, dest, io, k - 1).st, paper[k], dest, io[k])

\* the least of the numbers in failing, and n when there is none
FirstOf(failing, n) ==
  IF failing = {} THEN n ELSE CHOOSE k \in failing : \A j \in failing : k <= j

\* the items up to the first failing one processed in order, and no other
PapersUpToFailure(st, paper, io) ==
  AfterPapers(st, paper, io,
              FirstOf({k \in DOMAIN paper : AfterPapers(st, paper, io, k).err # ""},
                      Len(paper)))

CategoriesUpToFailure(st, category, io) ==
  AfterCategories(st, category, io,
                  FirstOf({k \in DOMAIN category :
                             AfterCategories(st, category, io, k).err # ""},
                          Len(category)))

MovesUpToFailure(st, paper, dest, io) ==
  AfterMoves(st, paper, dest, io,
             FirstOf({k \in DOMAIN paper : AfterMoves(st, paper, dest, io, k).err # ""},
                     Len(paper)))

\* a delete request as the claim has it: the papers up to the first failure, and
\* the categories, up to the first failure, when no paper failed
DeleteUpToFailure(form, ioPaper, ioCategory) ==
  CHOOSE r \in {IF p.err # "" THEN p
                ELSE CategoriesUpToFailure(p.st, form.category, ioCategory) :
                  p \in {PapersUpToFailure(Cur, form.paper, ioPaper)}} : TRUE

\* the batches of two: two documents, a document twice, a document after one that
\* is no key; a category twice, a category after one that is no key
AbsentPaper == Join(A, Z \o PdfExt)
PaperBatches ==
  {<<p, q>> : p \in AllKeys, q \in AllKeys} \cup {<<AbsentPaper, p>> : p \in AllKeys}

\* the failure injected into a batch of two different keys: os.Remove of the second
\* (a key given twice, or after one that is no key, needs none)
BatchFailure(paper) ==
  IF paper[1] = paper[2] \/ paper[1] = AbsentPaper THEN <<0, 0>> ELSE <<0, 1>>
MoveBatches == {<<p, p>> : p \in AllKeys} \cup {<<AbsentPaper, p>> : p \in AllKeys}
CategoryBatches ==
  {<<c, c>> : c \in DOMAIN List} \cup {<<D, c>> : c \in DOMAIN List}

\* C39: a batch edit request processes its items in order and stops at the first
\* failing one: no item after it is processed, the items before it stay applied, the
\* categories are deleted only when every paper deletion succeeded, and the status
\* is the first error (in every state in which a behaviour makes a call)
C39_BatchStopsAtFirstFailure ==
  Calling =>
    /\ \A paper \in PaperBatches :
         EditHandlerDelete(Cur, [paper |-> paper, category |-> <<Dir(paper[2])>>],
                           BatchFailure(paper), <<0>>)
           = DeleteUpToFailure([paper |-> paper, category |-> <<Dir(paper[2])>>],
                               BatchFailure(paper), <<0>>)
    /\ \A paper \in MoveBatches, dest \in DownloadCategories \cap DOMAIN List :
         MovePapers(Ok(Cur), paper, dest, <<0, 0>>)
           = MovesUpToFailure(Cur, paper, dest, <<0, 0>>)
    /\ \A category \in CategoryBatches :
         EditHandlerDelete(Cur, [paper |-> <<>>, category |-> category], <<>>, <<0, 0>>)
           = DeleteUpToFailure([paper |-> <<>>, category |-> category], <<>>, <<0, 0>>)
    /\ \A p \in AllKeys :
         EditHandler(Cur, "", "",
                     [auth |-> NoAuth,
                      form |-> EditForm("delete", <<p, p>>, <<Dir(p)>>, <<>>, <<>>, <<>>)],
                     EmptyMap)
           = DeleteUpToFailure([paper |-> <<p, p>>, category |-> <<Dir(p)>>],
                               <<0, 0>>, <<0>>)

\* a request to delete two documents and a category of which the first deletion is
\* made and stays, the second fails and gives the status, and the category, which a
\* request of its own would delete, is left; and one whose first item fails and whose
\* second, which would succeed, is not processed
C39_Witness ==
  \E p \in AllKeys, q \in AllKeys, c \in DOMAIN List :
    /\ Calling
    /\ p # q
    /\ EditHandlerDelete(Cur, [paper |-> <<p, q>>, category |-> <<c>>], <<0, 1>>, <<0>>).err
         = "io"
    /\ ~HasKey(EditHandlerDelete(Cur, [paper |-> <<p, q>>, category |-> <<c>>],
                                 <<0, 1>>, <<0>>).st, Dir(p), p)
    /\ HasKey(Cur, Dir(p), p)
    /\ c \in DOMAIN EditHandlerDelete(Cur, [paper |-> <<p, q>>, category |-> <<c>>],
                                      <<0, 1>>, <<0>>).st.List
    /\ DeleteCategory(Cur, c, 0).err = ""
    /\ EditHandlerDelete(Cur, [paper |-> <<AbsentPaper, q>>, category |-> <<>>],
                         <<0, 0>>, <<>>) = Fail("nopaper", Cur)
    /\ DeletePaper(Cur, q, 0).err = ""

====
